---- MODULE Spec2Model ----
(***************************************************************************)
(* A model of mspm0flash: the BSL command operations (bsl.c), the flashing *)
(* orchestration cmd_prog / cmd_erase / cmd_info / cmd_crc and main()      *)
(* (main.c, the copy with the -b/-N/-l options), and load_fw_image.        *)
(*                                                                         *)
(* 32-bit unsigned values that do not fit TLC's integers (CRCs) are pairs  *)
(* <<hi16, lo16>>.  A C buffer is a sequence; C index i is element i + 1.  *)
(***************************************************************************)
EXTENDS Integers, Sequences, FiniteSets, TLC

VARIABLES
    opt,      \* the parsed command line: the o_* globals of main.c
    pc,       \* position in main / in the running cmd_*
    rc,       \* main: int rc
    intf,     \* struct bsl_intf, plus whether intf.fd is open
    script,   \* control-script invocations so far: sequence of "init" / "exit"
    wire,     \* every frame handed to the transport, with the command's result
    prog,     \* cmd_prog's locals
    crc_out,  \* what cmd_crc printed: <<crc, length>>, or <<>>
    call      \* a direct call of one command operation: arguments and result

vars == <<opt, pc, rc, intf, script, wire, prog, crc_out, call>>

(***************************************************************************)
(* Bounds of the model.                                                    *)
(***************************************************************************)
\* how many of the file lengths of FileLenAt cmd_prog is run on
NumProgFiles == 4
\* how many of the file lengths of FileLenAt main is run on
NumMainFiles == 1

FileLenAt == <<10, 4096, 4097, 1, 4095, 8192, 256, 1024>>

Min(a, b) == IF a < b THEN a ELSE b

\* a firmware file of L bytes, and a file name that cannot be opened
File(L) == [exists |-> TRUE, len |-> L]
NoFile == [exists |-> FALSE, len |-> 0]

ProgFiles == {File(FileLenAt[i]) : i \in 1..Min(NumProgFiles, Len(FileLenAt))}
MainFiles == {File(FileLenAt[i]) : i \in 1..Min(NumMainFiles, Len(FileLenAt))}

\* content of every firmware file: byte i of the file (never 0xFF, the pad byte)
FileByte(i) == (i * 37 + 11) % 255

(***************************************************************************)
(* bsl.h                                                                   *)
(***************************************************************************)
BSL_CMD_HEADER == 128
BSL_HEADER_SIZE == 3
BSL_CRC_SIZE == 4

BSL_CMD_CONNECTION == 18
BSL_CMD_MASS_ERASE == 21
BSL_CMD_GET_DEVICE_INFO == 25
BSL_CMD_PROGRAM_DATA == 32
BSL_CMD_UNLOCK_BL == 33
BSL_CMD_STANDALONE_VERIFICATION == 38
BSL_CMD_MEMORY_READ_BACK == 41
BSL_CMD_START_APPLICATION == 64
BSL_CMD_CHANGE_BAUDRATE == 82

BSL_ACK == 0
BSL_ERROR_HEADER_INCORRECT == 81
BSL_ERROR_CHECKSUM_INCORRECT == 82
BSL_ERROR_PACKET_SIZE_ZERO == 83
BSL_ERROR_PACKET_SIZE_TOO_BIG == 84
BSL_ERROR_UNKNOWN_ERROR == 85
BSL_ERROR_UNKNOWN_BAUD_RATE == 86

BSL_CORE_RSP_MEMORY_READ_BACK == 48
BSL_CORE_RSP_GET_DEVICE_INFO == 49
BSL_CORE_RSP_STANDALONE_VERIFICATION == 50
BSL_CORE_RSP_DETAILED_ERROR == 58
BSL_CORE_RSP_MESSAGE == 59

BSL_CORE_MSG_OPERATION_SUCCESSFUL == 0
BSL_CORE_MSG_BSL_LOCKED_ERROR == 1
BSL_CORE_MSG_BSL_PASSWORD_ERROR == 2
BSL_CORE_MSG_MULTIPLE_BSL_PASSWORD_ERROR == 3
BSL_CORE_MSG_UNKNOWN_COMMAND == 4
BSL_CORE_MSG_INVALID_MEMORY_RAMGE == 5
BSL_CORE_MSG_INVALID_COMMAND == 6
BSL_CORE_MSG_FACTORY_RESET_DISABLED == 7
BSL_CORE_MSG_FACTORY_RESET_PASSWORD_ERROR == 8
BSL_CORE_MSG_READ_OUT_ERROR == 9
BSL_CORE_MSG_INVALID_ADDRESS == 10
BSL_CORE_MSG_INVALID_LENGTH == 11

BSL_UART_B19200 == 3
BSL_UART_B38400 == 4
BSL_UART_B57600 == 5
BSL_UART_B115200 == 6
BSL_UART_B1000000 == 7

INTERFACE_TYPE_INVALID == 0
INTERFACE_TYPE_UART == 1
INTERFACE_TYPE_I2C == 2

BSL_PROGGRAM_DATA_MAX_LEN == 256

\* errno values the code returns
EIO == 5
EINVAL == 22
ENOENT == 2

(***************************************************************************)
(* Bit operations on bytes and 16-bit halves.                              *)
(***************************************************************************)
RECURSIVE XorN(_, _, _)
XorN(a, b, n) ==
    IF n = 0 THEN 0
    ELSE ((a + b) % 2) + 2 * XorN(a \div 2, b \div 2, n - 1)

Xor8T == [a \in 0..255 |-> [b \in 0..255 |-> XorN(a, b, 8)]]

Xor16(a, b) == Xor8T[a % 256][b % 256] + 256 * Xor8T[a \div 256][b \div 256]

\* C index i of buffer buf; a receive buffer is zeroed before use
B(buf, i) == IF i < Len(buf) THEN buf[i + 1] ELSE 0

(***************************************************************************)
(* crc32: bit-serial, reflected, POLY 0xEDB88320, start 0xFFFFFFFF, no     *)
(* final XOR.  The 32-bit crc is <<hi16, lo16>>.                           *)
(***************************************************************************)
POLY_HI == 60856
POLY_LO == 33568

\* variant: the polynomial is applied when the low bit is clear
crc_round_mask_inverted(crc) ==
    LET hi == crc[1] \div 2
        lo == (crc[2] \div 2) + 32768 * (crc[1] % 2)
    IN  IF crc[2] % 2 = 0 THEN <<Xor16(hi, POLY_HI), Xor16(lo, POLY_LO)>> ELSE <<hi, lo>>

\* one round of the inner loop: mask = -(crc & 1); crc = (crc >> 1) ^ (POLY & mask)
crc_round(crc) ==
    LET hi == crc[1] \div 2
        lo == (crc[2] \div 2) + 32768 * (crc[1] % 2)
    IN  IF crc[2] % 2 = 1
        THEN <<Xor16(hi, POLY_HI), Xor16(lo, POLY_LO)>>
        ELSE <<hi, lo>>

\* the body of the outer loop for one byte: crc = crc ^ buf[i], then 8 rounds
crc_byte(crc, b) ==
    LET x == <<crc[1], (crc[2] - (crc[2] % 256)) + Xor8T[crc[2] % 256][b]>>
    IN  crc_round(crc_round(crc_round(crc_round(
        crc_round(crc_round(crc_round(crc_round(x))))))))

\* the outer loop over buf[lo .. hi-1], evaluated left half first
RECURSIVE crc_range(_, _, _, _)
crc_range(crc, buf, lo, hi) ==
    IF hi <= lo THEN crc
    ELSE IF hi = lo + 1 THEN crc_byte(crc, buf[lo + 1])
    ELSE LET mid == (lo + hi) \div 2
             left == crc_range(crc, buf, lo, mid)
         IN  IF left[1] >= 0 THEN crc_range(left, buf, mid, hi) ELSE left

crc32(buf, len) == crc_range(<<65535, 65535>>, buf, 0, len)

(***************************************************************************)
(* load_fw_image (main.c).  rd is what read() did: "ok", "error" (-1) or   *)
(* "short" (fewer bytes than the file holds).                              *)
(***************************************************************************)
\* variant: no padding
pad_4k_none(len) == len

\* variant: the next boundary strictly above len
pad_4k_above(len) == (len + 4096) - ((len + 4096) % 4096)

\* len_pad = (len + 4095) & (~0xfff)
pad_4k(len) == (len + 4095) - ((len + 4095) % 4096)

\* memset(buf, 0xff, len_pad); read(fd, buf, len)
image_buf(len, len_pad) ==
    [i \in 1..len_pad |-> IF i <= len THEN FileByte(i - 1) ELSE 255]

\* variant: an empty file is loaded like any other
load_fw_image_accepts_empty(file, len_pad_arg, rd) ==
    LET len == file.len
        len_pad == IF len_pad_arg = 0 THEN pad_4k(len) ELSE len_pad_arg
        none == [rc |-> 0, buf |-> <<>>, len |-> 0, overflow |-> FALSE]
    IN  IF ~file.exists THEN [none EXCEPT !.rc = ENOENT]
        ELSE IF rd = "error" THEN [none EXCEPT !.rc = EIO]
        ELSE IF rd = "short" THEN [none EXCEPT !.rc = EIO]
        ELSE [rc |-> 0, buf |-> image_buf(len, len_pad), len |-> len_pad,
              overflow |-> len > len_pad]

\* the result: rc, and *_buf / *_len when rc = 0.  overflow: read() was asked
\* for more bytes than the buffer holds
load_fw_image(file, len_pad_arg, rd) ==
    LET len == file.len
        len_pad == IF len_pad_arg = 0 THEN pad_4k(len) ELSE len_pad_arg
        none == [rc |-> 0, buf |-> <<>>, len |-> 0, overflow |-> FALSE]
    IN  IF ~file.exists THEN [none EXCEPT !.rc = ENOENT]
        ELSE IF len = 0 THEN [none EXCEPT !.rc = EIO]
        ELSE IF rd = "error" THEN [none EXCEPT !.rc = EIO]    \* errno of read()
        ELSE IF rd = "short" THEN [none EXCEPT !.rc = EIO]
        ELSE [rc |-> 0, buf |-> image_buf(len, len_pad), len |-> len_pad,
              overflow |-> len > len_pad]

ReadResults == {"ok", "error", "short"}

(***************************************************************************)
(* The transport, as the command operations see it (bsl_write_read): the   *)
(* environment decides the return code and the bytes received.             *)
(***************************************************************************)
\* what the transport did with one request: its return code and the receive
\* buffer after it (zeroed, then filled by the device)
Outcome(trc, rx) == [trc |-> trc, rx |-> rx]

\* i2c_write_read returns 1 on a failed transaction; uart_write_read returns
\* 1 when select() fails and EIO on a timeout
TransportErrors(type) ==
    IF type = INTERFACE_TYPE_I2C THEN {1}
    ELSE IF type = INTERFACE_TYPE_UART THEN {1, EIO}
    ELSE {}

\* bsl_write_read: rc = -1 unless the interface is I2C or UART
bsl_write_read(type, o) ==
    IF type \in {INTERFACE_TYPE_I2C, INTERFACE_TYPE_UART} THEN o.trc ELSE -1

\* whether bsl_write_read hands the frame to a transport at all
on_wire(type) == type \in {INTERFACE_TYPE_I2C, INTERFACE_TYPE_UART}

(***************************************************************************)
(* Response decoding (bsl.c).                                              *)
(***************************************************************************)
\* variant: only the six named codes are failures
check_bsl_acknowledgement_named_only(ack) ==
    IF ack \in {BSL_ERROR_HEADER_INCORRECT, BSL_ERROR_CHECKSUM_INCORRECT,
                BSL_ERROR_PACKET_SIZE_ZERO, BSL_ERROR_PACKET_SIZE_TOO_BIG,
                BSL_ERROR_UNKNOWN_ERROR, BSL_ERROR_UNKNOWN_BAUD_RATE}
    THEN 1 ELSE 0

\* if (ack != BSL_ACK) { switch (ack) { ... printf ... } return 1; } return 0
check_bsl_acknowledgement(ack) == IF ack # BSL_ACK THEN 1 ELSE 0

\* variant: the switch without its last case
StatusErrors_without_last == {
    BSL_CORE_MSG_BSL_LOCKED_ERROR, BSL_CORE_MSG_BSL_PASSWORD_ERROR,
    BSL_CORE_MSG_MULTIPLE_BSL_PASSWORD_ERROR, BSL_CORE_MSG_UNKNOWN_COMMAND,
    BSL_CORE_MSG_INVALID_MEMORY_RAMGE, BSL_CORE_MSG_INVALID_COMMAND,
    BSL_CORE_MSG_FACTORY_RESET_DISABLED, BSL_CORE_MSG_FACTORY_RESET_PASSWORD_ERROR,
    BSL_CORE_MSG_READ_OUT_ERROR, BSL_CORE_MSG_INVALID_ADDRESS }

\* the cases of switch (buffer[5]), each of which returns 1

StatusErrors == {
    BSL_CORE_MSG_BSL_LOCKED_ERROR, BSL_CORE_MSG_BSL_PASSWORD_ERROR,
    BSL_CORE_MSG_MULTIPLE_BSL_PASSWORD_ERROR, BSL_CORE_MSG_UNKNOWN_COMMAND,
    BSL_CORE_MSG_INVALID_MEMORY_RAMGE, BSL_CORE_MSG_INVALID_COMMAND,
    BSL_CORE_MSG_FACTORY_RESET_DISABLED, BSL_CORE_MSG_FACTORY_RESET_PASSWORD_ERROR,
    BSL_CORE_MSG_READ_OUT_ERROR, BSL_CORE_MSG_INVALID_ADDRESS,
    BSL_CORE_MSG_INVALID_LENGTH }

check_bsl_response(buffer, len) ==
    IF len = 0 THEN 1
    ELSE IF check_bsl_acknowledgement(B(buffer, 0)) # 0 THEN 1
    ELSE IF B(buffer, 1) # 8 THEN 1
    ELSE IF /\ B(buffer, 4) = BSL_CORE_RSP_MESSAGE
            /\ B(buffer, 5) # BSL_CORE_MSG_OPERATION_SUCCESSFUL
            /\ B(buffer, 5) \in StatusErrors
         THEN 1
    ELSE 0

(***************************************************************************)
(* The command operations (bsl.c): the request each one builds, and its    *)
(* return value given what the transport did.                              *)
(***************************************************************************)
\* a request: command byte tx[3], the 16-bit length field tx[1] | tx[2] << 8,
\* the address and length/count fields and the data bytes it carries
Request(cmd, len_field, addr, len, data) ==
    [cmd |-> cmd, len_field |-> len_field, addr |-> addr, len |-> len, data |-> data]

\* BSL_TX_LEN: the number of bytes handed to the transport
BSL_TX_LEN(req) == BSL_HEADER_SIZE + req.len_field + BSL_CRC_SIZE

req_connect == Request(BSL_CMD_CONNECTION, 1, 0, 0, <<>>)
req_get_device_info == Request(BSL_CMD_GET_DEVICE_INFO, 1, 0, 0, <<>>)
req_unlock_bootloader == Request(BSL_CMD_UNLOCK_BL, 33, 0, 0, [i \in 1..32 |-> 255])
req_mass_erase == Request(BSL_CMD_MASS_ERASE, 1, 0, 0, <<>>)
req_start_application == Request(BSL_CMD_START_APPLICATION, 1, 0, 0, <<>>)
req_change_baudrate(baudrate) == Request(BSL_CMD_CHANGE_BAUDRATE, 2, 0, 0, <<baudrate>>)
req_verification(address, len) == Request(BSL_CMD_STANDALONE_VERIFICATION, 9, address, len, <<>>)
\* tx[1], tx[2] hold (5 + len) & 0xffff; memcpy(tx+8, data, len)
req_program_data(address, data, len) ==
    Request(BSL_CMD_PROGRAM_DATA, (5 + len) % 65536, address, len, data)

\* variant: the acknowledgement byte is looked at whatever the transport did
ack_result_always_decoded(type, o) == check_bsl_acknowledgement(B(o.rx, 0))

\* the commands that only check the acknowledgement byte
ack_result(type, o) ==
    LET trc == bsl_write_read(type, o)
    IN  IF trc # 0 THEN trc ELSE check_bsl_acknowledgement(B(o.rx, 0))

\* the commands that check the whole core response
rsp_result(type, o) ==
    LET trc == bsl_write_read(type, o)
    IN  IF trc # 0 THEN trc ELSE check_bsl_response(o.rx, 10)

bsl_connect(type, o) == ack_result(type, o)
bsl_get_device_info(type, o) == ack_result(type, o)
bsl_unlock_bootloader(type, o) == ack_result(type, o)
bsl_start_application(type, o) == ack_result(type, o)
bsl_change_baudrate(type, o) == ack_result(type, o)
bsl_mass_erase(type, o) == rsp_result(type, o)
bsl_program_data(type, o) == rsp_result(type, o)
bsl_verification(type, o) == rsp_result(type, o)

\* variant: the 32-bit fields read with the high half first
device_info_halves_swapped(rx) ==
    [version |-> B(rx, 5) + 256 * B(rx, 6),
     build_id |-> B(rx, 7) + 256 * B(rx, 8),
     app_version |-> <<B(rx, 9) + 256 * B(rx, 10), B(rx, 11) + 256 * B(rx, 12)>>,
     interface_version |-> B(rx, 13) + 256 * B(rx, 14),
     bsl_max_buffer_size |-> B(rx, 15) + 256 * B(rx, 16),
     bsl_buffer_start |-> <<B(rx, 17) + 256 * B(rx, 18), B(rx, 19) + 256 * B(rx, 20)>>,
     bcr_config_id |-> <<B(rx, 21) + 256 * B(rx, 22), B(rx, 23) + 256 * B(rx, 24)>>,
     bsl_config_id |-> <<B(rx, 25) + 256 * B(rx, 26), B(rx, 27) + 256 * B(rx, 28)>>]

\* struct bsl_device_info as bsl_get_device_info fills it from rx; a uint32_t
\* field is the pair <<bits 31..16, bits 15..0>>
device_info(rx) ==
    [version |-> B(rx, 5) + 256 * B(rx, 6),
     build_id |-> B(rx, 7) + 256 * B(rx, 8),
     app_version |-> <<B(rx, 11) + 256 * B(rx, 12), B(rx, 9) + 256 * B(rx, 10)>>,
     interface_version |-> B(rx, 13) + 256 * B(rx, 14),
     bsl_max_buffer_size |-> B(rx, 15) + 256 * B(rx, 16),
     bsl_buffer_start |-> <<B(rx, 19) + 256 * B(rx, 20), B(rx, 17) + 256 * B(rx, 18)>>,
     bcr_config_id |-> <<B(rx, 23) + 256 * B(rx, 24), B(rx, 21) + 256 * B(rx, 22)>>,
     bsl_config_id |-> <<B(rx, 27) + 256 * B(rx, 28), B(rx, 25) + 256 * B(rx, 26)>>]

\* *crc = rx[5] | rx[6] << 8 | rx[7] << 16 | rx[8] << 24
verification_crc(rx) == <<B(rx, 7) + 256 * B(rx, 8), B(rx, 5) + 256 * B(rx, 6)>>

(***************************************************************************)
(* What the device may answer.                                             *)
(***************************************************************************)
\* a 10-byte core response: ack, header byte, length, tag, byte 5, then bytes
\* the host never looks at
CoreRsp(ack, hdr, tag, b5) == <<ack, hdr, 2, 0, tag, b5, 0, 0, 0, 0>>

\* a 13-byte standalone-verification response carrying crc
CrcRsp(tag, crc) ==
    <<BSL_ACK, 8, 5, 0, tag, crc[2] % 256, crc[2] \div 256,
      crc[1] % 256, crc[1] \div 256, 0, 0, 0, 0>>

RspOk == CoreRsp(BSL_ACK, 8, BSL_CORE_RSP_MESSAGE, BSL_CORE_MSG_OPERATION_SUCCESSFUL)

RspNack == CoreRsp(BSL_ERROR_CHECKSUM_INCORRECT, 0, 0, 0)
RspLocked == CoreRsp(BSL_ACK, 8, BSL_CORE_RSP_MESSAGE, BSL_CORE_MSG_BSL_LOCKED_ERROR)
RspInvalidAddress ==
    CoreRsp(BSL_ACK, 8, BSL_CORE_RSP_MESSAGE, BSL_CORE_MSG_INVALID_ADDRESS)

AckBytes == {BSL_ACK, BSL_ERROR_CHECKSUM_INCORRECT, BSL_ERROR_UNKNOWN_BAUD_RATE}

Failed(type, n) == {Outcome(e, [i \in 1..n |-> 0]) : e \in TransportErrors(type)}

\* the transport outcomes of a command with a 1-byte response
AckOutcomes(type) == {Outcome(0, <<a>>) : a \in AckBytes} \cup Failed(type, 1)

\* the transport outcomes of start-application: the device acknowledges, or
\* has already jumped to the application and does not answer
StartOutcomes(type) ==
    {Outcome(0, <<BSL_ACK>>)}
    \cup {Outcome(IF type = INTERFACE_TYPE_UART THEN EIO ELSE 1, <<0>>)}

\* the transport outcomes of unlock-bootloader
UnlockOutcomes(type) ==
    {Outcome(0, r) : r \in {RspOk, RspNack, RspLocked}} \cup Failed(type, 10)

\* the transport outcomes of mass-erase and program-data
CoreOutcomes(type) ==
    {Outcome(0, r) : r \in {RspOk, RspNack, RspInvalidAddress}} \cup Failed(type, 10)

\* the transport outcomes of standalone-verify; host is the CRC of the host's
\* image: the device may return it, or a CRC that differs in one bit
VerifyOutcomes(type, host) ==
    {Outcome(0, CrcRsp(BSL_CORE_RSP_STANDALONE_VERIFICATION, c)) :
        c \in {host, <<host[1], Xor16(host[2], 1)>>, <<Xor16(host[1], 32768), host[2]>>}}
    \cup {Outcome(0, CoreRsp(BSL_ACK, 8, BSL_CORE_RSP_MESSAGE, BSL_CORE_MSG_INVALID_LENGTH)
                     \o <<0, 0, 0>>),
          Outcome(0, RspNack \o <<0, 0, 0>>)}
    \cup Failed(type, 13)

(***************************************************************************)
(* The record of the frames handed to the transport.                       *)
(***************************************************************************)
\* by: the function of main.c that called the command operation
Sent(by, req, o, ret) ==
    [by |-> by, req |-> req, tx_len |-> BSL_TX_LEN(req), trc |-> o.trc, rx |-> o.rx,
     ret |-> ret, type |-> intf.type, addr |-> intf.i2c_address]

Transmit(by, req, o, ret) ==
    wire' = IF on_wire(intf.type) THEN Append(wire, Sent(by, req, o, ret)) ELSE wire

(***************************************************************************)
(* cmd_prog (main.c).                                                      *)
(***************************************************************************)
NoProg == [fw_buf |-> <<>>, total_len |-> 0, p |-> 0, len |-> 0, address |-> 0,
           pad_len |-> 0, crc_bsl |-> <<0, 0>>, crc_file |-> <<0, 0>>, crc_len |-> 0,
           freed |-> FALSE]

\* variant: the whole remainder in one command
write_len_all(len) == len

\* if (len > BSL_PROGGRAM_DATA_MAX_LEN) write_len = BSL_PROGGRAM_DATA_MAX_LEN;
\* else write_len = len
write_len(len) ==
    IF len > BSL_PROGGRAM_DATA_MAX_LEN THEN BSL_PROGGRAM_DATA_MAX_LEN ELSE len

\* variant: the next 1024-byte boundary strictly above total_len
verify_pad_len_above(total_len) == (total_len + 1024) - ((total_len + 1024) % 1024)

\* variant: the window of the file's own length
verify_pad_len_file(total_len) == (opt.file.len + 1023) - ((opt.file.len + 1023) % 1024)

\* pad_len = (total_len+1023) & (~0x3ff)
verify_pad_len(total_len) == (total_len + 1023) - ((total_len + 1023) % 1024)

\* variant: programming starts right after unlock, without the erase
prog_goto_no_erase(step, ret, len) ==
    IF ret # 0 THEN "out_free"
    ELSE IF step = "prog_unlock" THEN "prog_data"
    ELSE IF step \in {"prog_erase", "prog_data"}
         THEN (IF len > 0 THEN "prog_data" ELSE "prog_verify")
    ELSE "prog_compare"

\* variant: the result of unlock is not looked at
prog_goto_unlock_unchecked(step, ret, len) ==
    IF step = "prog_unlock" THEN "prog_erase"
    ELSE IF ret # 0 THEN "out_free"
    ELSE IF step \in {"prog_erase", "prog_data"}
         THEN (IF len > 0 THEN "prog_data" ELSE "prog_verify")
    ELSE "prog_compare"

\* where cmd_prog goes after the command of step `step` returned ret:
\* "out_free" with rc = 1 on a failure, else the next step; the program loop
\* repeats while (len > 0)
prog_goto(step, ret, len) ==
    IF ret # 0 THEN "out_free"
    ELSE IF step = "prog_unlock" THEN "prog_erase"
    ELSE IF step \in {"prog_erase", "prog_data"}
         THEN (IF len > 0 THEN "prog_data" ELSE "prog_verify")
    ELSE "prog_compare"

\* variant: the address stays where it was
next_address_same(address, wl) == address

\* address += write_len
next_address(address, wl) == address + wl

\* variant: only the low 16 bits are compared
crc_mismatch_low16(crc_file, crc_bsl) == crc_file[2] # crc_bsl[2]

\* crc_file != crc_bsl
crc_mismatch(crc_file, crc_bsl) == crc_file # crc_bsl

\* out_free: free(fw_buf); return rc.  main stores the value in its rc and
\* goes on after the command
ProgReturn(value, locals) ==
    /\ prog' = [locals EXCEPT !.freed = TRUE]
    /\ rc' = value
    /\ pc' = "start"

ProgLoad ==
    /\ pc = "prog_load"
    /\ \E rd \in ReadResults :
         LET r == load_fw_image(opt.file, 0, rd)
         IN  IF r.rc # 0
             THEN /\ rc' = -1
                  /\ pc' = "start"
                  /\ UNCHANGED prog
             ELSE /\ prog' = [prog EXCEPT !.fw_buf = r.buf, !.total_len = r.len]
                  /\ pc' = "prog_unlock"
                  /\ UNCHANGED rc
    /\ UNCHANGED <<opt, intf, script, wire, crc_out, call>>

ProgUnlock ==
    /\ pc = "prog_unlock"
    /\ \E o \in UnlockOutcomes(intf.type) :
         LET ret == bsl_unlock_bootloader(intf.type, o)
             nxt == prog_goto("prog_unlock", ret, 0)
         IN  /\ Transmit("cmd_prog", req_unlock_bootloader, o, ret)
             /\ IF nxt = "out_free"
                THEN ProgReturn(1, prog)
                ELSE pc' = nxt /\ UNCHANGED <<prog, rc>>
    /\ UNCHANGED <<opt, intf, script, crc_out, call>>

\* bsl_mass_erase, then p = fw_buf; address = 0; len = total_len
ProgErase ==
    /\ pc = "prog_erase"
    /\ \E o \in CoreOutcomes(intf.type) :
         LET ret == bsl_mass_erase(intf.type, o)
             locals == [prog EXCEPT !.p = 0, !.address = 0, !.len = prog.total_len]
             nxt == prog_goto("prog_erase", ret, locals.len)
         IN  /\ Transmit("cmd_prog", req_mass_erase, o, ret)
             /\ IF nxt = "out_free"
                THEN ProgReturn(1, prog)
                ELSE pc' = nxt /\ prog' = locals /\ UNCHANGED rc
    /\ UNCHANGED <<opt, intf, script, crc_out, call>>

\* one pass of the while (len > 0) loop
ProgData ==
    /\ pc = "prog_data"
    /\ LET wl == write_len(prog.len)
           data == SubSeq(prog.fw_buf, prog.p + 1, prog.p + wl)
           req == req_program_data(prog.address, data, wl)
           locals == [prog EXCEPT !.p = prog.p + wl, !.len = prog.len - wl,
                                  !.address = next_address(prog.address, wl)]
       IN  \E o \in CoreOutcomes(intf.type) :
             LET ret == bsl_program_data(intf.type, o)
                 nxt == prog_goto("prog_data", ret, locals.len)
             IN  /\ Transmit("cmd_prog", req, o, ret)
                 /\ IF nxt = "out_free"
                    THEN ProgReturn(1, prog)
                    ELSE pc' = nxt /\ prog' = locals /\ UNCHANGED rc
    /\ UNCHANGED <<opt, intf, script, crc_out, call>>

\* crc32(fw_buf, n) as cmd_prog calls it: when n exceeds the allocation the
\* bytes behind the buffer are whatever the heap holds
host_crc32(buf, n) ==
    IF n <= Len(buf) THEN {crc32(buf, n)}
    ELSE {crc32(buf \o [i \in 1..(n - Len(buf)) |-> h], n) : h \in {0, 255}}

\* bsl_verification, crc32 over the image, the comparison, out_free:
\* bsl_verification(intf, 0, pad_len, &crc_bsl), then
\* crc_file = crc32(fw_buf, pad_len): prog.crc_len is the number of bytes the
\* host CRC was computed over
ProgVerify ==
    /\ pc = "prog_verify"
    /\ LET pad_len == verify_pad_len(prog.total_len)
           req == req_verification(0, pad_len)
       IN  \E crc_file \in host_crc32(prog.fw_buf, pad_len) :
           \E o \in VerifyOutcomes(intf.type, crc_file) :
             LET ret == bsl_verification(intf.type, o)
                 crc_bsl == verification_crc(o.rx)
                 locals == [prog EXCEPT !.pad_len = pad_len]
             IN  /\ Transmit("cmd_prog", req, o, ret)
                 /\ IF prog_goto("prog_verify", ret, 0) = "out_free"
                    THEN ProgReturn(1, locals)
                    ELSE ProgReturn(IF crc_mismatch(crc_file, crc_bsl) THEN 1 ELSE 0,
                                    [locals EXCEPT !.crc_bsl = crc_bsl,
                                                   !.crc_file = crc_file,
                                                   !.crc_len = pad_len])
    /\ UNCHANGED <<opt, intf, script, crc_out, call>>

(***************************************************************************)
(* cmd_prog called on an open interface with a firmware file.              *)
(***************************************************************************)
DEFAULT_I2C_ADDR == 72
DEFAULT_BAUDRATE == 9600

NoOpt == [iface |-> INTERFACE_TYPE_I2C, baud |-> DEFAULT_BAUDRATE, address |-> <<>>,
          no_script |-> TRUE,
          no_connect |-> TRUE, do_start |-> FALSE, cmd |-> "prog",
          has_file |-> TRUE, file |-> NoFile, length |-> 0]

NoCall == [op |-> "none", address |-> 0, len |-> 0, ret |-> 0, state |-> "none"]

\* intf.fd is "unopened", "open" or "closed"; line is the speed the host UART
\* is set to, 0 for the settings the terminal had before (old_tio)
OpenIntf(t) ==
    [fd |-> "open", type |-> t, baudrate |-> DEFAULT_BAUDRATE,
     i2c_address |-> DEFAULT_I2C_ADDR,
     line |-> IF t = INTERFACE_TYPE_UART THEN 9600 ELSE 0, sys |-> <<>>]

InitProg ==
    /\ \E f \in ProgFiles \cup {NoFile, File(0)},
          t \in {INTERFACE_TYPE_I2C, INTERFACE_TYPE_UART} :
         /\ opt = [NoOpt EXCEPT !.file = f, !.iface = t]
         /\ intf = OpenIntf(t)
    /\ pc = "prog_load"
    /\ rc = 0
    /\ script = <<>>
    /\ wire = <<>>
    /\ prog = NoProg
    /\ crc_out = <<>>
    /\ call = NoCall

NextProg == ProgLoad \/ ProgUnlock \/ ProgErase \/ ProgData \/ ProgVerify

SpecProg == InitProg /\ [][NextProg]_vars

(***************************************************************************)
(* cmd_erase, cmd_info, cmd_crc (main.c).  Each returns to main, which     *)
(* stores the value in rc and goes on at "start".                          *)
(***************************************************************************)
\* the transport outcomes of get-device-info (33 bytes)
InfoOutcomes(type) ==
    {Outcome(0, <<a>> \o [i \in 1..32 |-> i]) : a \in AckBytes}
    \cup {Outcome(0, <<BSL_ACK>> \o [i \in 1..32 |-> (i * 67 + 129) % 256])}
    \cup Failed(type, 33)

\* the CRC values a device may report to cmd_crc
DeviceCrcs == {<<0, 0>>, <<4660, 43981>>}

CrcOutcomes(type) ==
    {Outcome(0, CrcRsp(BSL_CORE_RSP_STANDALONE_VERIFICATION, c)) : c \in DeviceCrcs}
    \cup {Outcome(0, CrcRsp(BSL_CORE_RSP_DETAILED_ERROR, <<0, 1>>))}
    \cup {Outcome(0, CoreRsp(BSL_ACK, 8, BSL_CORE_RSP_MESSAGE, BSL_CORE_MSG_INVALID_LENGTH)
                     \o <<0, 0, 0>>),
          Outcome(0, RspNack \o <<0, 0, 0>>)}
    \cup Failed(type, 13)

EraseUnlock ==
    /\ pc = "erase_unlock"
    /\ \E o \in UnlockOutcomes(intf.type) :
         LET ret == bsl_unlock_bootloader(intf.type, o)
         IN  /\ Transmit("cmd_erase", req_unlock_bootloader, o, ret)
             /\ IF ret # 0
                THEN rc' = -1 /\ pc' = "start"
                ELSE pc' = "erase_erase" /\ UNCHANGED rc
    /\ UNCHANGED <<opt, intf, script, prog, crc_out, call>>

EraseErase ==
    /\ pc = "erase_erase"
    /\ \E o \in CoreOutcomes(intf.type) :
         LET ret == bsl_mass_erase(intf.type, o)
         IN  /\ Transmit("cmd_erase", req_mass_erase, o, ret)
             /\ rc' = IF ret # 0 THEN -1 ELSE 0
             /\ pc' = "start"
    /\ UNCHANGED <<opt, intf, script, prog, crc_out, call>>

Info ==
    /\ pc = "info"
    /\ \E o \in InfoOutcomes(intf.type) :
         LET ret == bsl_get_device_info(intf.type, o)
         IN  /\ Transmit("cmd_info", req_get_device_info, o, ret)
             /\ rc' = IF ret # 0 THEN -1 ELSE 0
             /\ pc' = "start"
    /\ UNCHANGED <<opt, intf, script, prog, crc_out, call>>

\* cmd_crc with a file name: load the file padded to `length`, print its CRC.
\* When length is below the file's length, read() runs over the end of the
\* buffer: the process may crash or go on.
CrcFile ==
    /\ pc = "crc" /\ opt.has_file
    /\ \E rd \in ReadResults :
         LET r == load_fw_image(opt.file, opt.length, rd)
         IN  \/ /\ r.rc # 0
                /\ rc' = -1
                /\ pc' = "start"
                /\ UNCHANGED crc_out
             \/ /\ r.rc = 0
                /\ crc_out' = <<crc32(r.buf, r.len), r.len>>
                /\ rc' = 0
                /\ pc' = "start"
             \/ /\ r.overflow
                /\ pc' = "crashed"
                /\ UNCHANGED <<rc, crc_out>>
    /\ UNCHANGED <<opt, intf, script, wire, prog, call>>

\* variant: only a length of 0 is refused
CrcUnlock_any_nonzero_length ==
    /\ pc = "crc" /\ ~opt.has_file
    /\ IF opt.length = 0
       THEN /\ rc' = 0
            /\ pc' = "start"
            /\ UNCHANGED wire
       ELSE \E o \in UnlockOutcomes(intf.type) :
              LET ret == bsl_unlock_bootloader(intf.type, o)
              IN  /\ Transmit("cmd_crc", req_unlock_bootloader, o, ret)
                  /\ IF ret # 0
                     THEN rc' = 0 /\ pc' = "start"
                     ELSE pc' = "crc_verify" /\ UNCHANGED rc
    /\ UNCHANGED <<opt, intf, script, prog, crc_out, call>>

\* cmd_crc without a file name: the checks of length, then unlock
CrcUnlock ==
    /\ pc = "crc" /\ ~opt.has_file
    /\ IF opt.length = 0 \/ opt.length % 1024 # 0
       THEN /\ rc' = 0
            /\ pc' = "start"
            /\ UNCHANGED wire
       ELSE \E o \in UnlockOutcomes(intf.type) :
              LET ret == bsl_unlock_bootloader(intf.type, o)
              IN  /\ Transmit("cmd_crc", req_unlock_bootloader, o, ret)
                  /\ IF ret # 0
                     THEN rc' = 0 /\ pc' = "start"
                     ELSE pc' = "crc_verify" /\ UNCHANGED rc
    /\ UNCHANGED <<opt, intf, script, prog, crc_out, call>>

CrcVerify ==
    /\ pc = "crc_verify"
    /\ \E o \in CrcOutcomes(intf.type) :
         LET ret == bsl_verification(intf.type, o)
         IN  /\ Transmit("cmd_crc", req_verification(0, opt.length), o, ret)
             /\ crc_out' = IF ret # 0 THEN crc_out
                           ELSE <<verification_crc(o.rx), opt.length>>
             /\ rc' = 0
             /\ pc' = "start"
    /\ UNCHANGED <<opt, intf, script, prog, call>>

(***************************************************************************)
(* main (main.c).                                                          *)
(***************************************************************************)
\* uint8_t o_i2c_address = DEFAULT_I2C_ADDR: no option assigns it
o_i2c_address == DEFAULT_I2C_ADDR

\* bool device_connection: false for crc with a file name
device_connection == ~(opt.cmd = "crc" /\ opt.has_file)

\* the first switch of the baud-rate change: the rate code sent to the
\* device, 0 when the switch takes the default branch
baud_code(baudrate) ==
    IF baudrate = 19200 THEN BSL_UART_B19200
    ELSE IF baudrate = 38400 THEN BSL_UART_B38400
    ELSE IF baudrate = 57200 THEN BSL_UART_B57600
    ELSE IF baudrate = 115200 THEN BSL_UART_B115200
    ELSE IF baudrate = 1000000 THEN BSL_UART_B1000000
    ELSE 0

\* variant: the host UART is set to the rate as it was given
termios_speed_as_given(baudrate) ==
    IF baudrate \in {19200, 38400, 57200, 115200, 1000000} THEN baudrate ELSE 0

\* the second switch: the termios speed (B19200 .. B1000000, named here by
\* the speed it stands for) the host UART is set to, 0 for the default branch
termios_speed(baudrate) ==
    IF baudrate = 19200 THEN 19200
    ELSE IF baudrate = 38400 THEN 38400
    ELSE IF baudrate = 57200 THEN 57600
    ELSE IF baudrate = 115200 THEN 115200
    ELSE IF baudrate = 1000000 THEN 1000000
    ELSE 0

\* the if / else if chain that selects the command
cmd_entry ==
    IF opt.cmd = "erase" THEN "erase_unlock"
    ELSE IF opt.cmd = "info" THEN "info"
    ELSE IF opt.cmd = "prog" THEN "prog_load"
    ELSE "crc"

\* open the device; for UART save the terminal settings (rc = tcgetattr;
\* assert(rc != -1) ends the process when that fails) and set 9600 baud.
\* intf.sys lists the calls made on the open descriptor from here on.
MainOpen ==
    /\ pc = "open"
    /\ IF ~device_connection
       THEN pc' = "baud" /\ UNCHANGED <<intf, rc>>
       ELSE \E ok \in BOOLEAN, tio \in {-1, 0} :
              IF ~ok
              THEN /\ rc' = -1
                   /\ pc' = "done"
                   /\ UNCHANGED intf
              ELSE IF opt.iface = INTERFACE_TYPE_UART /\ tio = -1
              THEN /\ intf' = [intf EXCEPT !.fd = "open", !.type = opt.iface,
                                           !.baudrate = opt.baud,
                                           !.sys = <<"tcgetattr">>]
                   /\ rc' = tio
                   /\ pc' = "aborted"
              ELSE /\ intf' = [intf EXCEPT
                                 !.sys = IF opt.iface = INTERFACE_TYPE_UART
                                         THEN <<"tcgetattr">> ELSE <<>>,
                                 !.fd = "open",
                                 !.type = opt.iface,
                                 !.i2c_address = IF opt.iface = INTERFACE_TYPE_I2C
                                                 THEN o_i2c_address ELSE @,
                                 !.baudrate = IF opt.iface = INTERFACE_TYPE_UART
                                              THEN opt.baud ELSE @,
                                 !.line = IF opt.iface = INTERFACE_TYPE_UART
                                          THEN 9600 ELSE @]
                   /\ rc' = IF opt.iface = INTERFACE_TYPE_UART THEN 0 ELSE rc
                   /\ pc' = "script_init"
    /\ UNCHANGED <<opt, script, wire, prog, crc_out, call>>

\* if (!o_no_script) rc = script_init(): the script returns 0 or fails
MainScriptInit ==
    /\ pc = "script_init"
    /\ IF opt.no_script
       THEN pc' = "connect" /\ UNCHANGED <<script, rc>>
       ELSE \E r \in {0, 1} :
              /\ script' = Append(script, [arg |-> "init", rc |-> r])
              /\ rc' = r
              /\ pc' = IF r # 0 THEN "out_close" ELSE "connect"
    /\ UNCHANGED <<opt, intf, wire, prog, crc_out, call>>

\* variant: the return value of bsl_connect is not looked at
MainConnect_unchecked ==
    /\ pc = "connect"
    /\ IF opt.no_connect
       THEN pc' = "baud" /\ UNCHANGED wire
       ELSE \E o \in AckOutcomes(intf.type) :
              /\ Transmit("main", req_connect, o, bsl_connect(intf.type, o))
              /\ pc' = "baud"
    /\ UNCHANGED <<opt, rc, intf, script, prog, crc_out, call>>

\* if (!o_no_connect) bsl_connect
MainConnect ==
    /\ pc = "connect"
    /\ IF opt.no_connect
       THEN pc' = "baud" /\ UNCHANGED wire
       ELSE \E o \in AckOutcomes(intf.type) :
              LET ret == bsl_connect(intf.type, o)
              IN  /\ Transmit("main", req_connect, o, ret)
                  /\ pc' = IF ret # 0 THEN "out_close" ELSE "baud"
    /\ UNCHANGED <<opt, rc, intf, script, prog, crc_out, call>>

\* the baud-rate change, for UART with a rate other than DEFAULT_BAUDRATE
MainBaud ==
    /\ pc = "baud"
    /\ IF ~(intf.type = INTERFACE_TYPE_UART /\ intf.baudrate # DEFAULT_BAUDRATE)
       THEN pc' = cmd_entry /\ UNCHANGED <<rc, intf, wire>>
       ELSE IF baud_code(intf.baudrate) = 0
       THEN rc' = EINVAL /\ pc' = "out_close" /\ UNCHANGED <<intf, wire>>
       ELSE \E o \in AckOutcomes(intf.type) :
              LET ret == bsl_change_baudrate(intf.type, o)
              IN  /\ Transmit("main", req_change_baudrate(baud_code(intf.baudrate)), o, ret)
                  /\ IF ret # 0
                     THEN pc' = "out_close" /\ UNCHANGED <<rc, intf>>
                     ELSE IF termios_speed(intf.baudrate) = 0
                     THEN rc' = EINVAL /\ pc' = "out_close" /\ UNCHANGED intf
                     ELSE /\ intf' = [intf EXCEPT !.line = termios_speed(intf.baudrate)]
                          /\ pc' = cmd_entry
                          /\ UNCHANGED rc
    /\ UNCHANGED <<opt, script, prog, crc_out, call>>

\* variant: -s suppresses the start
MainStart_unless_given ==
    /\ pc = "start"
    /\ IF opt.do_start
       THEN UNCHANGED wire
       ELSE IF ~on_wire(intf.type)
       THEN UNCHANGED wire
       ELSE \E o \in StartOutcomes(intf.type) :
              Transmit("main", req_start_application, o,
                       bsl_start_application(intf.type, o))
    /\ pc' = "script_exit"
    /\ UNCHANGED <<opt, rc, intf, script, prog, crc_out, call>>

\* if (o_do_start) bsl_start_application(&intf): the result is not looked at
MainStart ==
    /\ pc = "start"
    /\ IF ~opt.do_start
       THEN UNCHANGED wire
       ELSE IF ~on_wire(intf.type)
       THEN UNCHANGED wire
       ELSE \E o \in StartOutcomes(intf.type) :
              Transmit("main", req_start_application, o,
                       bsl_start_application(intf.type, o))
    /\ pc' = "script_exit"
    /\ UNCHANGED <<opt, rc, intf, script, prog, crc_out, call>>

\* if (device_connection && !o_no_script) script_exit()
MainScriptExit ==
    /\ pc = "script_exit"
    /\ script' = IF device_connection /\ ~opt.no_script
                 THEN Append(script, [arg |-> "exit", rc |-> 0])
                 ELSE script
    /\ pc' = "out_close"
    /\ UNCHANGED <<opt, rc, intf, wire, prog, crc_out, call>>

\* variant: the descriptor is released only after a session that succeeded
MainClose_on_success_only ==
    /\ pc = "out_close"
    /\ intf' = IF rc # 0 THEN intf
               ELSE [intf EXCEPT
                       !.line = IF intf.type = INTERFACE_TYPE_UART THEN 0 ELSE @,
                       !.fd = IF @ = "open" THEN "closed" ELSE @,
                       !.sys = @ \o (IF intf.type = INTERFACE_TYPE_UART
                                     THEN <<"tcsetattr">> ELSE <<>>) \o <<"close">>]
    /\ pc' = "done"
    /\ UNCHANGED <<opt, rc, script, wire, prog, crc_out, call>>

\* out_close: restore the terminal settings on UART, close(intf.fd), return rc
MainClose ==
    /\ pc = "out_close"
    /\ intf' = [intf EXCEPT
                  !.line = IF intf.type = INTERFACE_TYPE_UART THEN 0 ELSE @,
                  !.fd = IF @ = "open" THEN "closed" ELSE @,
                  !.sys = @ \o (IF intf.type = INTERFACE_TYPE_UART
                                THEN <<"tcsetattr">> ELSE <<>>) \o <<"close">>]
    /\ pc' = "done"
    /\ UNCHANGED <<opt, rc, script, wire, prog, crc_out, call>>

\* the exit status of the process: the low 8 bits of main's return value
exit_status == rc % 256

\* the rates given with -b
Bauds == {DEFAULT_BAUDRATE, 19200, 57200, 57600, 115200, 4800}

CrcLengths == {0, 1000, 1024, 8}

\* the argument of -a: none, or an address (case 'a' stores it in
\* intf.i2c_address)
Addresses == {<<>>, <<41>>}

\* the command lines: the transport, the flags, and the command with its
\* arguments.  crc with a file name switches the script off.
Commands ==
    {[cmd |-> c, has_file |-> FALSE, file |-> NoFile, length |-> 0] : c \in {"erase", "info"}}
    \cup {[cmd |-> "prog", has_file |-> TRUE, file |-> f, length |-> 0] :
            f \in MainFiles \cup {NoFile}}
    \cup {[cmd |-> "crc", has_file |-> FALSE, file |-> NoFile, length |-> l] :
            l \in CrcLengths}
    \cup {[cmd |-> "crc", has_file |-> TRUE, file |-> f, length |-> l] :
            f \in MainFiles \cup {NoFile}, l \in CrcLengths}

Init ==
    /\ \E c \in Commands, t \in {INTERFACE_TYPE_I2C, INTERFACE_TYPE_UART},
          b \in Bauds, a \in Addresses,
          ns \in BOOLEAN, nc \in BOOLEAN, ds \in BOOLEAN :
         /\ t = INTERFACE_TYPE_I2C => b = DEFAULT_BAUDRATE
         /\ t = INTERFACE_TYPE_UART => a = <<>>
         /\ opt = [iface |-> t, baud |-> b, address |-> a,
                   no_script |-> ns \/ (c.cmd = "crc" /\ c.has_file),
                   no_connect |-> nc, do_start |-> ds, cmd |-> c.cmd,
                   has_file |-> c.has_file, file |-> c.file, length |-> c.length]
    /\ pc = "open"
    /\ rc = 1
    /\ intf = [fd |-> "unopened", type |-> INTERFACE_TYPE_INVALID, baudrate |-> 0,
               i2c_address |-> IF opt.address = <<>> THEN 0 ELSE opt.address[1],
               line |-> 0, sys |-> <<>>]
    /\ script = <<>>
    /\ wire = <<>>
    /\ prog = NoProg
    /\ crc_out = <<>>
    /\ call = NoCall

Next ==
    \/ MainOpen \/ MainScriptInit \/ MainConnect \/ MainBaud
    \/ EraseUnlock \/ EraseErase \/ Info
    \/ ProgLoad \/ ProgUnlock \/ ProgErase \/ ProgData \/ ProgVerify
    \/ CrcFile \/ CrcUnlock \/ CrcVerify
    \/ MainStart \/ MainScriptExit \/ MainClose

Spec == Init /\ [][Next]_vars

(***************************************************************************)
(* bsl_program_data called directly, with any length.                      *)
(***************************************************************************)
\* uint8_t tx[BSL_PROGRAM_TX_BUFFER_LEN]
BSL_PROGRAM_TX_BUFFER_LEN == BSL_PROGGRAM_DATA_MAX_LEN + 12

\* add_crc stores the CRC at tx[3 + core_data_len .. 3 + core_data_len + 3]:
\* beyond the end of tx when the frame is longer than the buffer
tx_overflow(req) == BSL_TX_LEN(req) > BSL_PROGRAM_TX_BUFFER_LEN

\* memcpy(tx+8, data, len) itself runs beyond the end of tx
memcpy_overflow(len) == 8 + len > BSL_PROGRAM_TX_BUFFER_LEN

CallLens == {0, 1, 8, 255, 256, 257, 258, 260, 300}
CallAddresses == {0, 8, 256, 4096}

\* the function has no check of len: it builds the frame and hands BSL_TX_LEN
\* bytes to the transport.  With len > 256 it has written beyond tx: it may
\* return as usual, or the process may crash, after the frame went out or,
\* when memcpy ran beyond tx, before.
CallProgramData ==
    /\ pc = "call" /\ call.op = "program_data"
    /\ LET data == [i \in 1..call.len |-> FileByte(i - 1)]
           req == req_program_data(call.address, data, call.len)
       IN  \/ \E o \in CoreOutcomes(intf.type) :
                LET ret == bsl_program_data(intf.type, o)
                IN  /\ Transmit("caller", req, o, ret)
                    /\ \/ call' = [call EXCEPT !.ret = ret, !.state = "returned"]
                       \/ /\ tx_overflow(req)
                          /\ call' = [call EXCEPT !.state = "crashed"]
           \/ /\ memcpy_overflow(call.len)
              /\ call' = [call EXCEPT !.state = "crashed"]
              /\ UNCHANGED wire
    /\ pc' = "called"
    /\ UNCHANGED <<opt, rc, intf, script, prog, crc_out>>

InitCmd ==
    /\ \E a \in CallAddresses, l \in CallLens :
         call = [op |-> "program_data", address |-> a, len |-> l, ret |-> 0,
                 state |-> "pending"]
    /\ \E t \in {INTERFACE_TYPE_I2C, INTERFACE_TYPE_UART} : intf = OpenIntf(t)
    /\ opt = NoOpt
    /\ pc = "call"
    /\ rc = 0
    /\ script = <<>>
    /\ wire = <<>>
    /\ prog = NoProg
    /\ crc_out = <<>>

NextCmd == CallProgramData

SpecCmd == InitCmd /\ [][NextCmd]_vars

(***************************************************************************)
(* uart_write_read (bsl.c), one system call at a time.                     *)
(***************************************************************************)
\* the largest read_len uart_write_read is called with
UartMaxRead == 6

\* the k-th byte (from 0) the device puts on the line
DevByte(k) == (k * 53 + 7) % 256

\* the bytes one read() returns: the next cnt bytes of the line
line_bytes(from, cnt) == [i \in 1..cnt |-> DevByte(from + i - 1)]

\* the branch of the if / else if chain on n = select(...)
select_branch(n) ==
    IF n = -1 THEN "fail"
    ELSE IF n = 0 THEN "timeout"
    ELSE IF n = 1 THEN "read"
    ELSE "fail"

\* variant: rx + 0
rx_offset_start(idx) == 0

\* read(fd, rx + idx, read_len - idx): where the bytes are stored
rx_offset(idx) == idx

\* variant: idx is not advanced
next_idx_stuck(idx, cnt) == idx

\* idx += cnt
next_idx(idx, cnt) == idx + cnt

\* the buffer with bytes stored from offset at on
store(buf, at, bytes) ==
    [i \in 1..Len(buf) |->
        IF i - 1 >= at /\ i - 1 < at + Len(bytes) THEN bytes[i - at] ELSE buf[i]]

\* what select() may return
SelectResults == {-1, 0, 1}

\* what read() may return after select() said the descriptor is readable:
\* 1 .. read_len - idx bytes, 0 (end of file) or -1 (EAGAIN on O_NONBLOCK)
ReadCounts(room) == (-1) .. room

NoUart == [op |-> "uart_write_read", write_len |-> 0, written |-> 0, read_len |-> 0,
           rx |-> <<>>, idx |-> 0, cycles |-> 0, n |-> 1, delivered |-> <<>>,
           ret |-> 0, state |-> "pending"]

\* rc = write(fd, tx, write_len); assert(rc != -1); then the test of the
\* while loop.  A short write is not noticed.
UartWrite ==
    /\ pc = "uart_write"
    /\ \E w \in {call.write_len, call.write_len - 1, -1} :
         IF w = -1
         THEN /\ call' = [call EXCEPT !.state = "aborted"]
              /\ pc' = "uart_done"
         ELSE /\ call' = [call EXCEPT !.written = w,
                             !.state = IF 0 < call.read_len THEN "polling" ELSE "returned",
                             !.ret = 0]
              /\ pc' = IF 0 < call.read_len THEN "uart_poll" ELSE "uart_done"
    /\ UNCHANGED <<opt, rc, intf, script, wire, prog, crc_out>>

\* one pass of while (idx < read_len): select, then return, or read and
\* assert(cnt > 0), then the test of the loop again
UartPoll ==
    /\ pc = "uart_poll"
    /\ \E n \in SelectResults :
         LET br == select_branch(n)
         IN  IF br = "fail"
             THEN /\ call' = [call EXCEPT !.n = n, !.ret = 1, !.state = "returned"]
                  /\ pc' = "uart_done"
             ELSE IF br = "timeout"
             THEN /\ call' = [call EXCEPT !.n = n, !.ret = EIO, !.state = "returned"]
                  /\ pc' = "uart_done"
             ELSE \E cnt \in ReadCounts(call.read_len - call.idx) :
                    IF cnt <= 0
                    THEN /\ call' = [call EXCEPT !.n = n, !.state = "aborted"]
                         /\ pc' = "uart_done"
                    ELSE LET bytes == line_bytes(Len(call.delivered), cnt)
                             idx == next_idx(call.idx, cnt)
                             more == idx < call.read_len
                         IN  /\ call' = [call EXCEPT
                                           !.n = n,
                                           !.rx = store(call.rx, rx_offset(call.idx), bytes),
                                           !.idx = idx,
                                           !.cycles = call.cycles + 1,
                                           !.delivered = call.delivered \o bytes,
                                           !.ret = 0,
                                           !.state = IF more THEN "polling" ELSE "returned"]
                             /\ pc' = IF more THEN "uart_poll" ELSE "uart_done"
    /\ UNCHANGED <<opt, rc, intf, script, wire, prog, crc_out>>

\* uart_write_read called with read_len bytes of room in rx (the callers
\* have cleared rx) and a request of write_len bytes
InitUart ==
    /\ \E r \in 0..UartMaxRead, w \in {8, 40} :
         call = [NoUart EXCEPT !.write_len = w, !.read_len = r,
                               !.rx = [i \in 1..r |-> 0]]
    /\ intf = OpenIntf(INTERFACE_TYPE_UART)
    /\ opt = NoOpt
    /\ pc = "uart_write"
    /\ rc = 0
    /\ script = <<>>
    /\ wire = <<>>
    /\ prog = NoProg
    /\ crc_out = <<>>

NextUart == UartWrite \/ UartPoll

SpecUart == InitUart /\ [][NextUart]_vars

\* C11: a poll cycle in which select() reports nothing ends the operation
\* with the error EIO; every cycle that lets the loop go on has stored at
\* least one byte, so there are never more than read_len such cycles, and
\* the loop is only entered again while idx < read_len.
C11_UartTerminates ==
    (call.op = "uart_write_read") =>
        /\ call.cycles <= call.read_len
        /\ call.cycles <= call.idx
        /\ call.n = 0 => (call.state = "returned" /\ call.ret = EIO /\ pc = "uart_done")
        /\ pc = "uart_poll" => call.idx < call.read_len

\* the device stopped sending after a part of the response had arrived
C11_Witness ==
    /\ call.op = "uart_write_read"
    /\ call.n = 0 /\ call.state = "returned" /\ call.ret = EIO
    /\ call.cycles >= 2 /\ call.idx < call.read_len

\* C12: rx[0, idx) holds the bytes delivered so far in the order of their
\* arrival and the rest of rx is untouched; idx is at most read_len; the
\* operation returns 0 exactly when idx = read_len.
C12_UartConcatenates ==
    (call.op = "uart_write_read") =>
        /\ call.idx <= call.read_len
        /\ call.idx = Len(call.delivered)
        /\ \A i \in 1..Len(call.rx) :
             call.rx[i] = IF i <= call.idx THEN DevByte(i - 1) ELSE 0
        /\ \A i \in 1..Len(call.delivered) : call.delivered[i] = DevByte(i - 1)
        /\ call.state = "returned" => (call.ret = 0 <=> call.idx = call.read_len)

\* a response that arrived in three or more pieces
C12_Witness ==
    /\ call.op = "uart_write_read"
    /\ call.state = "returned" /\ call.ret = 0
    /\ call.cycles >= 3 /\ call.idx = call.read_len
    /\ call.idx > call.cycles

(***************************************************************************)
(* The properties of a prog session, stated over the frames on the wire.   *)
(***************************************************************************)
\* the frames sent by cmd_prog, in the order they were sent
ProgWire == SelectSeq(wire, LAMBDA e : e.by = "cmd_prog")

\* the step of the flashing sequence a frame belongs to
StepRank(e) ==
    IF e.req.cmd = BSL_CMD_UNLOCK_BL THEN 1
    ELSE IF e.req.cmd = BSL_CMD_MASS_ERASE THEN 2
    ELSE IF e.req.cmd = BSL_CMD_PROGRAM_DATA THEN 3
    ELSE IF e.req.cmd = BSL_CMD_STANDALONE_VERIFICATION THEN 4
    ELSE 0

IsChunk(e) == e.req.cmd = BSL_CMD_PROGRAM_DATA

\* the sum of the sizes of the program-data commands among the first n frames
RECURSIVE ChunkBytes(_, _)
ChunkBytes(w, n) ==
    IF n = 0 THEN 0
    ELSE ChunkBytes(w, n - 1) + (IF IsChunk(w[n]) THEN w[n].req.len ELSE 0)

\* the number of program-data commands among the first n frames
RECURSIVE ChunkCount(_, _)
ChunkCount(w, n) ==
    IF n = 0 THEN 0
    ELSE ChunkCount(w, n - 1) + (IF IsChunk(w[n]) THEN 1 ELSE 0)

\* cmd_prog is between its first statement and its return
InProg == pc \in {"prog_load", "prog_unlock", "prog_erase", "prog_data", "prog_verify"}

\* C1: the commands of cmd_prog go out in the order unlock, mass-erase,
\* program-data chunks, standalone-verify: when a command is sent, every
\* command of every earlier step has been sent and has returned success (for
\* standalone-verify: the chunks sent cover the whole image), and no command
\* of an earlier step follows a command of a later step; unlock, mass-erase
\* and standalone-verify are sent at most once.
C1_FixedOrder ==
    LET w == ProgWire
    IN  \A j \in 1..Len(w) :
          /\ StepRank(w[j]) \in 1..4
          /\ \A i \in 1..(j - 1) :
               /\ w[i].ret = 0
               /\ StepRank(w[i]) <= StepRank(w[j])
               /\ StepRank(w[j]) # 3 => StepRank(w[i]) < StepRank(w[j])
          /\ \A r \in 1..(StepRank(w[j]) - 1) :
               \E i \in 1..(j - 1) : StepRank(w[i]) = r
          /\ StepRank(w[j]) = 4 => ChunkBytes(w, j) = Len(prog.fw_buf)

\* a session that sent all four steps, the last one with success
C1_Witness ==
    LET w == ProgWire
    IN  /\ Len(w) >= 4
        /\ StepRank(w[Len(w)]) = 4 /\ w[Len(w)].ret = 0
        /\ \E i \in 1..Len(w) : StepRank(w[i]) = 3

\* C2: a command of cmd_prog that returned failure is the last command
\* cmd_prog sent, and cmd_prog has returned non-zero; a device that answers
\* unlock with the NACK 0x52 never gets a mass-erase.
C2_AbortOnFailure ==
    LET w == ProgWire
    IN  /\ \A i \in 1..Len(w) :
             (w[i].ret # 0 \/ w[i].trc # 0 \/ w[i].rx[1] # BSL_ACK) =>
                /\ i = Len(w)
                /\ ~InProg
                /\ rc # 0
        /\ (\E i \in 1..Len(w) :
               /\ w[i].req.cmd = BSL_CMD_UNLOCK_BL /\ w[i].trc = 0
               /\ w[i].rx[1] = BSL_ERROR_CHECKSUM_INCORRECT)
           => \A i \in 1..Len(w) : w[i].req.cmd # BSL_CMD_MASS_ERASE

\* unlock was answered with the NACK 0x52 and cmd_prog has returned
C2_Witness ==
    /\ Len(ProgWire) = 1
    /\ ProgWire[1].req.cmd = BSL_CMD_UNLOCK_BL
    /\ ProgWire[1].trc = 0
    /\ ProgWire[1].rx[1] = BSL_ERROR_CHECKSUM_INCORRECT
    /\ ~InProg
    /\ rc # 0

\* all four steps were sent and succeeded, the chunks covering the image
AllStepsOk ==
    LET w == ProgWire
    IN  /\ Len(w) >= 3
        /\ \A i \in 1..Len(w) : w[i].ret = 0
        /\ StepRank(w[1]) = 1
        /\ StepRank(w[2]) = 2
        /\ StepRank(w[Len(w)]) = 4
        /\ \A i \in 3..(Len(w) - 1) : StepRank(w[i]) = 3
        /\ ChunkBytes(w, Len(w)) = Len(prog.fw_buf)

\* the CRC in bytes 5..8 of the response to the last frame of cmd_prog
DeviceCrc ==
    LET rx == ProgWire[Len(ProgWire)].rx
    IN  <<rx[8] + 256 * rx[9], rx[6] + 256 * rx[7]>>

\* C3: once cmd_prog has returned, its return value is 0 exactly when unlock,
\* mass-erase, every chunk and standalone-verify succeeded and the CRC in the
\* device's response equals the CRC32 of the whole padded image in memory.
C3_SuccessIffVerified ==
    (pc = "start" /\ opt.cmd = "prog") =>
        (rc = 0 <=> (AllStepsOk /\ DeviceCrc = crc32(prog.fw_buf, Len(prog.fw_buf))))

\* cmd_prog has returned 0 after a session in which every step succeeded
C3_Witness ==
    /\ pc = "start" /\ opt.cmd = "prog"
    /\ rc = 0
    /\ AllStepsOk

\* C4: every program-data command of cmd_prog carries min(remaining, 256)
\* bytes, remaining being the image length less the bytes of the chunks
\* before it: at least one byte and at most 256.
C4_ChunkSize ==
    LET w == ProgWire
    IN  \A j \in 1..Len(w) :
          IsChunk(w[j]) =>
            /\ w[j].req.len = Min(Len(prog.fw_buf) - ChunkBytes(w, j - 1), 256)
            /\ Len(w[j].req.data) = w[j].req.len
            /\ w[j].req.len >= 1
            /\ w[j].req.len <= 256
            /\ w[j].tx_len = 3 + 1 + 4 + w[j].req.len + 4

\* the second chunk of an image has gone out
C4_Witness ==
    /\ ChunkCount(ProgWire, Len(ProgWire)) >= 2
    /\ \E j \in 1..Len(ProgWire) : IsChunk(ProgWire[j]) /\ ProgWire[j].req.len = 256

\* the program loop has ended without a failure
LoopDone ==
    \/ pc = "prog_verify"
    \/ \E j \in 1..Len(ProgWire) : StepRank(ProgWire[j]) = 4

\* C6: the first program-data command has address 0, each later one the sum
\* of the sizes before it; a chunk's data are the image bytes at
\* [address, address + size); when the loop has ended without a failure the
\* sizes sum to the image length and ceil(length / 256) commands were sent.
C6_Contiguous ==
    LET w == ProgWire
        n == Len(prog.fw_buf)
    IN  /\ \A j \in 1..Len(w) :
             IsChunk(w[j]) =>
               /\ w[j].req.addr = ChunkBytes(w, j - 1)
               /\ w[j].req.addr + w[j].req.len <= n
               /\ w[j].req.data = SubSeq(prog.fw_buf, w[j].req.addr + 1,
                                         w[j].req.addr + w[j].req.len)
        /\ LoopDone =>
             /\ ChunkBytes(w, Len(w)) = n
             /\ ChunkCount(w, Len(w)) = (n + 255) \div 256

\* the loop has ended after several chunks
C6_Witness ==
    /\ pc = "prog_verify"
    /\ ChunkCount(ProgWire, Len(ProgWire)) >= 17

\* C7: right after load_fw_image(filename, &buf, &len, 0) succeeded for a
\* file of L > 0 bytes, the buffer has P = ceil(L / 4096) * 4096 bytes, the
\* first L are the file's and the others are 0xFF.
C7_DefaultPadding ==
    (pc = "prog_unlock") =>
        LET L == opt.file.len
            P == Len(prog.fw_buf)
        IN  /\ L > 0
            /\ P = prog.total_len
            /\ P = ((L + 4095) \div 4096) * 4096
            /\ \A i \in 0..(L - 1) : prog.fw_buf[i + 1] = FileByte(i)
            /\ \A i \in L..(P - 1) : prog.fw_buf[i + 1] = 255

\* a file whose length is a multiple of 4096 was loaded, and one that is not
C7_Witness ==
    /\ pc = "prog_unlock"
    /\ opt.file.len \in {4096, 4097}
    /\ Len(prog.fw_buf) \in {4096, 8192}

\* the standalone-verify frame of cmd_prog
IsVerify(e) == e.by = "cmd_prog" /\ e.req.cmd = BSL_CMD_STANDALONE_VERIFICATION

\* C8 as stated: standalone-verify has address 0 and length
\* ceil(L / 1024) * 1024, L being the length of the image file.
C8_WindowOfFileLength ==
    \A j \in 1..Len(wire) :
        IsVerify(wire[j]) =>
            /\ wire[j].req.addr = 0
            /\ wire[j].req.len = ((opt.file.len + 1023) \div 1024) * 1024

\* C8: standalone-verify has address 0 and as length the length of the image
\* in memory, which load_fw_image has padded to ceil(L / 4096) * 4096, rounded
\* up to the next multiple of 1024 (which leaves it as it is).
C8_WindowOfPaddedImage ==
    \A j \in 1..Len(wire) :
        IsVerify(wire[j]) =>
            LET T == ((opt.file.len + 4095) \div 4096) * 4096
            IN  /\ wire[j].req.addr = 0
                /\ wire[j].req.len = ((T + 1023) \div 1024) * 1024
                /\ wire[j].req.len = Len(prog.fw_buf)

\* standalone-verify was sent for the 10-byte image
C8_Witness ==
    /\ opt.file.len = 10
    /\ \E j \in 1..Len(wire) : IsVerify(wire[j]) /\ wire[j].req.len = 4096

(***************************************************************************)
(* bsl_program_data with more than 256 bytes.                              *)
(***************************************************************************)
\* C5: a call of bsl_program_data with more than 256 data bytes returns
\* failure and puts no frame on the wire.
C5_RejectedBeforeTransmission ==
    (call.op = "program_data" /\ call.len > BSL_PROGGRAM_DATA_MAX_LEN
                              /\ call.state # "pending") =>
        /\ call.state = "returned"
        /\ call.ret # 0
        /\ wire = <<>>

(***************************************************************************)
(* The properties of main.                                                 *)
(***************************************************************************)
IsStart(e) == e.req.cmd = BSL_CMD_START_APPLICATION

\* the prog session of this run verified: all steps succeeded, CRCs equal
ProgVerified ==
    /\ AllStepsOk
    /\ prog.crc_file = prog.crc_bsl

\* C9: start-application is on the wire only when -s was given, for prog only
\* when standalone-verify succeeded with equal CRCs, and never after a
\* command that returned failure.
C9_StartOnlyAfterGoodFlash ==
    \A j \in 1..Len(wire) :
        IsStart(wire[j]) =>
            /\ opt.do_start
            /\ opt.cmd = "prog" => ProgVerified
            /\ \A i \in 1..(j - 1) : wire[i].ret = 0
            /\ rc = 0

\* what main must answer with a non-zero exit status: a failed script init,
\* a failed bsl_connect or bsl_change_baudrate, a failed command
ScriptInitFailed == \E i \in 1..Len(script) : script[i].arg = "init" /\ script[i].rc # 0

ConnectFailed ==
    \E i \in 1..Len(wire) :
        wire[i].req.cmd \in {BSL_CMD_CONNECTION, BSL_CMD_CHANGE_BAUDRATE} /\ wire[i].ret # 0

CommandFailed ==
    \/ \E i \in 1..Len(wire) :
          wire[i].by \in {"cmd_erase", "cmd_info", "cmd_prog", "cmd_crc"} /\ wire[i].ret # 0
    \/ opt.cmd = "prog" /\ prog.freed /\ prog.crc_file # prog.crc_bsl

\* C10: when main has returned after the script init, bsl_connect,
\* bsl_change_baudrate or the command failed, the exit status is not 0.
C10_ExitNonZeroOnError ==
    (pc = "done" /\ (ScriptInitFailed \/ ConnectFailed \/ CommandFailed)) =>
        exit_status # 0

(***************************************************************************)
(* The request frames, byte by byte (bsl.c).  tx is a local array that is  *)
(* not initialised: it starts with whatever the stack holds (fill).        *)
(***************************************************************************)
\* what the stack may hold where tx is
StackFills == {0, 165}

\* uint8_t tx[size]
stack(size, fill) == [i \in 1..size |-> fill]

\* (v >> 0) & 0xff, (v >> 8) & 0xff, (v >> 16) & 0xff, (v >> 24) & 0xff
le32(v) == <<v % 256, (v \div 256) % 256, (v \div 65536) % 256, (v \div 16777216) % 256>>

\* the four bytes add_crc stores, for a CRC held as <<high half, low half>>
crc_le(crc) == <<crc[2] % 256, crc[2] \div 256, crc[1] % 256, crc[1] \div 256>>

\* core_data_len = data[1] | data[2] << 8
core_data_len(data) == data[2] + 256 * data[3]

\* variant: the CRC runs from the header byte on
add_crc_from_header(data) ==
    LET n == core_data_len(data)
    IN  store(data, 3 + n, crc_le(crc32(SubSeq(data, 1, n), n)))

\* crc = crc32(&data[3], core_data_len); data[3 + core_data_len + 0 .. 3] = crc
add_crc(data) ==
    LET n == core_data_len(data)
    IN  store(data, 3 + n, crc_le(crc32(SubSeq(data, 4, 3 + n), n)))

\* BSL_TX_LEN, over the bytes of tx
tx_len(tx) == BSL_HEADER_SIZE + core_data_len(tx) + BSL_CRC_SIZE

\* the bytes handed to bsl_write_read: tx[0 .. BSL_TX_LEN)
frame(tx) == SubSeq(tx, 1, tx_len(tx))

\* (5 + len) & 0xff
len_lo(n) == n % 256

\* variant: tx[2] = 0, as in the commands with a short payload
len_hi_zero(n) == 0

\* ((5 + len) >> 8) & 0xff
len_hi(n) == (n \div 256) % 256

tx_connect(fill) ==
    add_crc(store(stack(32, fill), 0, <<BSL_CMD_HEADER, 1, 0, BSL_CMD_CONNECTION>>))

tx_get_device_info(fill) ==
    add_crc(store(stack(32, fill), 0, <<BSL_CMD_HEADER, 1, 0, BSL_CMD_GET_DEVICE_INFO>>))

\* variant: memset(&tx[4], 0xff, 31)
tx_unlock_bootloader_31(fill) ==
    add_crc(store(stack(64, fill), 0,
                  <<BSL_CMD_HEADER, 33, 0, BSL_CMD_UNLOCK_BL>> \o [i \in 1..31 |-> 255]))

\* memset(&tx[4], 0xff, 32)
tx_unlock_bootloader(fill) ==
    add_crc(store(stack(64, fill), 0,
                  <<BSL_CMD_HEADER, 33, 0, BSL_CMD_UNLOCK_BL>> \o [i \in 1..32 |-> 255]))

tx_mass_erase(fill) ==
    add_crc(store(stack(64, fill), 0, <<BSL_CMD_HEADER, 1, 0, BSL_CMD_MASS_ERASE>>))

tx_readback_data(fill, start, count) ==
    add_crc(store(stack(32, fill), 0,
                  <<BSL_CMD_HEADER, 9, 0, BSL_CMD_MEMORY_READ_BACK>>
                  \o le32(start) \o le32(count)))

\* len is at most BSL_PROGGRAM_DATA_MAX_LEN here: the frame fits tx
tx_program_data(fill, address, data, len) ==
    add_crc(store(stack(BSL_PROGRAM_TX_BUFFER_LEN, fill), 0,
                  <<BSL_CMD_HEADER, len_lo(5 + len), len_hi(5 + len), BSL_CMD_PROGRAM_DATA>>
                  \o le32(address) \o SubSeq(data, 1, len)))

tx_verification(fill, address, len) ==
    add_crc(store(stack(512, fill), 0,
                  <<BSL_CMD_HEADER, 9, 0, BSL_CMD_STANDALONE_VERIFICATION>>
                  \o le32(address) \o le32(len)))

tx_start_application(fill) ==
    add_crc(store(stack(64, fill), 0, <<BSL_CMD_HEADER, 1, 0, BSL_CMD_START_APPLICATION>>))

tx_change_baudrate(fill, baudrate) ==
    add_crc(store(stack(64, fill), 0,
                  <<BSL_CMD_HEADER, 2, 0, BSL_CMD_CHANGE_BAUDRATE, baudrate>>))

\* the data bytes a caller passes to bsl_program_data
CallData(len) == [i \in 1..len |-> FileByte(i - 1)]

\* tx of the command operation c.op called with the arguments in c
tx_of(c, fill) ==
    IF c.op = "bsl_connect" THEN tx_connect(fill)
    ELSE IF c.op = "bsl_get_device_info" THEN tx_get_device_info(fill)
    ELSE IF c.op = "bsl_unlock_bootloader" THEN tx_unlock_bootloader(fill)
    ELSE IF c.op = "bsl_mass_erase" THEN tx_mass_erase(fill)
    ELSE IF c.op = "bsl_readback_data" THEN tx_readback_data(fill, c.address, c.len)
    ELSE IF c.op = "bsl_program_data"
         THEN tx_program_data(fill, c.address, CallData(c.len), c.len)
    ELSE IF c.op = "bsl_verification" THEN tx_verification(fill, c.address, c.len)
    ELSE IF c.op = "bsl_start_application" THEN tx_start_application(fill)
    ELSE tx_change_baudrate(fill, c.baudrate)

(***************************************************************************)
(* The nine command operations called directly (bsl.c): each builds tx,    *)
(* hands tx[0 .. BSL_TX_LEN) to bsl_write_read once and returns.           *)
(***************************************************************************)
bsl_readback_data(type, o) == rsp_result(type, o)

\* on UART the operation may time out after a part of the response arrived:
\* rx then holds the bytes of a good response
Partial(type) == IF type = INTERFACE_TYPE_UART THEN {Outcome(EIO, RspOk)} ELSE {}

\* variant: read-back asks for the payload bytes only
read_len_of_payload_only(c) ==
    IF c.op \in {"bsl_connect", "bsl_start_application", "bsl_change_baudrate"} THEN 1
    ELSE IF c.op = "bsl_get_device_info" THEN 33
    ELSE IF c.op = "bsl_readback_data" THEN c.len
    ELSE IF c.op = "bsl_verification" THEN 13
    ELSE 10

\* the read_len argument of the operation's bsl_write_read call
read_len_of(c) ==
    IF c.op \in {"bsl_connect", "bsl_start_application", "bsl_change_baudrate"} THEN 1
    ELSE IF c.op = "bsl_get_device_info" THEN 33
    ELSE IF c.op = "bsl_readback_data" THEN 9 + c.len
    ELSE IF c.op = "bsl_verification" THEN 13
    ELSE 10

\* the read-back response of a device for count bytes: ACK, header, length,
\* response tag, the bytes, CRC of the core data
ReadbackRsp(count) ==
    LET core == <<BSL_CORE_RSP_MEMORY_READ_BACK>> \o [i \in 1..count |-> DevByte(i - 1)]
    IN  <<BSL_ACK, 8, len_lo(1 + count), len_hi(1 + count)>> \o core
        \o crc_le(crc32(core, Len(core)))

\* the transport outcomes of read-back: the bytes, or (I2C, where the read
\* transaction clocks in read_len bytes whatever the device holds) a shorter
\* message response followed by zeros
ReadbackOutcomes(type, count) ==
    {Outcome(0, ReadbackRsp(count))}
    \cup (IF type = INTERFACE_TYPE_I2C
          THEN {Outcome(0, r \o [i \in 1..(count - 1) |-> 0]) :
                    r \in {RspNack, RspInvalidAddress}}
          ELSE {})
    \cup Failed(type, 9 + count)

\* what one call of bsl_write_read leaves behind
Handed(op, tx, o, ret) ==
    [by |-> op, frame |-> frame(tx), tx_len |-> tx_len(tx), read_len |-> read_len_of(call),
     trc |-> o.trc, rx |-> o.rx, ret |-> ret]

\* what the operation stores through its pointer parameters: *info of
\* bsl_get_device_info and *crc of bsl_verification, both written only on
\* success; no other operation has an output parameter
caller_out(c, o, ret) ==
    IF c.op = "bsl_get_device_info" /\ ret = 0 THEN <<device_info(o.rx)>>
    ELSE IF c.op = "bsl_verification" /\ ret = 0 THEN <<verification_crc(o.rx)>>
    ELSE c.out

\* uint8_t rx[..]: the receive buffer of the operation
rx_size(c) ==
    IF c.op \in {"bsl_readback_data", "bsl_program_data", "bsl_verification"}
    THEN 32 ELSE 64

\* the transport stored read_len bytes in rx and read_len exceeds rx: the
\* bytes behind rx on the stack were overwritten
rx_overrun(c, o) == o.trc = 0 /\ read_len_of(c) > rx_size(c)

\* results: the operation's return value for each thing the transport may do.
\* After an overrun of rx the operation may return as if nothing had
\* happened, or the process ends when the function returns.
BslCall(op, results) ==
    /\ pc = "bsl_call" /\ call.op = op
    /\ \E tx \in {tx_of(call, call.fill)} :
       \E o \in DOMAIN results :
         LET ret == results[o]
         IN  /\ wire' = Append(wire, Handed(op, tx, o, ret))
             /\ \/ /\ call' = [call EXCEPT !.ret = ret, !.state = "returned",
                                            !.out = caller_out(call, o, ret)]
                   /\ pc' = "bsl_returned"
                \/ /\ rx_overrun(call, o)
                   /\ call' = [call EXCEPT !.state = "crashed"]
                   /\ pc' = "bsl_crashed"
    /\ UNCHANGED <<opt, rc, intf, script, prog, crc_out>>

CallConnect ==
    BslCall("bsl_connect",
            [o \in AckOutcomes(intf.type) \cup Partial(intf.type) |->
                bsl_connect(intf.type, o)])
CallGetDeviceInfo ==
    BslCall("bsl_get_device_info",
            [o \in InfoOutcomes(intf.type) \cup Partial(intf.type) |->
                bsl_get_device_info(intf.type, o)])
CallUnlockBootloader ==
    BslCall("bsl_unlock_bootloader",
            [o \in UnlockOutcomes(intf.type) \cup Partial(intf.type) |->
                bsl_unlock_bootloader(intf.type, o)])
CallMassErase ==
    BslCall("bsl_mass_erase",
            [o \in CoreOutcomes(intf.type) \cup Partial(intf.type) |->
                bsl_mass_erase(intf.type, o)])
CallReadbackData ==
    BslCall("bsl_readback_data",
            [o \in ReadbackOutcomes(intf.type, call.len) \cup Partial(intf.type) |->
                bsl_readback_data(intf.type, o)])
CallProgramDataFrame ==
    BslCall("bsl_program_data",
            [o \in CoreOutcomes(intf.type) \cup Partial(intf.type) |->
                bsl_program_data(intf.type, o)])
CallVerification ==
    BslCall("bsl_verification",
            [o \in CrcOutcomes(intf.type) \cup Partial(intf.type) |->
                bsl_verification(intf.type, o)])
CallStartApplication ==
    BslCall("bsl_start_application",
            [o \in AckOutcomes(intf.type) \cup Partial(intf.type) |->
                bsl_start_application(intf.type, o)])
CallChangeBaudrate ==
    BslCall("bsl_change_baudrate",
            [o \in AckOutcomes(intf.type) \cup Partial(intf.type) |->
                bsl_change_baudrate(intf.type, o)])

NoBsl == [op |-> "none", address |-> 0, len |-> 0, baudrate |-> 0, fill |-> 0,
          ret |-> 0, state |-> "pending", out |-> <<>>]

\* the arguments the operations are called with
FrameAddresses == {0, 74560, 2147483392}
FrameDataLens == {0, 1, 8, 250, 251, 256}

BslCalls ==
    {[NoBsl EXCEPT !.op = op] :
        op \in {"bsl_connect", "bsl_get_device_info", "bsl_unlock_bootloader",
                "bsl_mass_erase", "bsl_start_application"}}
    \cup {[NoBsl EXCEPT !.op = "bsl_readback_data", !.address = a, !.len = n] :
            a \in FrameAddresses, n \in {8, 23, 24}}
    \cup {[NoBsl EXCEPT !.op = "bsl_program_data", !.address = a, !.len = n] :
            a \in FrameAddresses, n \in FrameDataLens}
    \cup {[NoBsl EXCEPT !.op = "bsl_verification", !.address = a, !.len = n] :
            a \in FrameAddresses, n \in {1024, 74752}}
    \cup {[NoBsl EXCEPT !.op = "bsl_change_baudrate", !.baudrate = b] :
            b \in {BSL_UART_B19200, BSL_UART_B115200}}

InitBsl ==
    /\ \E c \in BslCalls, f \in StackFills : call = [c EXCEPT !.fill = f]
    /\ \E t \in {INTERFACE_TYPE_I2C, INTERFACE_TYPE_UART} : intf = OpenIntf(t)
    /\ opt = NoOpt
    /\ pc = "bsl_call"
    /\ rc = 0
    /\ script = <<>>
    /\ wire = <<>>
    /\ prog = NoProg
    /\ crc_out = <<>>

NextBsl ==
    \/ CallConnect \/ CallGetDeviceInfo \/ CallUnlockBootloader \/ CallMassErase
    \/ CallReadbackData \/ CallProgramDataFrame \/ CallVerification
    \/ CallStartApplication \/ CallChangeBaudrate

SpecBsl == InitBsl /\ [][NextBsl]_vars

(***************************************************************************)
(* The properties of the command operations and their frames.              *)
(***************************************************************************)
\* C13: an invocation of a command operation hands exactly one frame to the
\* transport; when the transport fails or times out the operation returns
\* the transport's error, whatever the receive buffer holds.
C13_NoRetry ==
    /\ pc = "bsl_call" => wire = <<>>
    /\ pc = "bsl_returned" =>
         /\ Len(wire) = 1
         /\ wire[1].by = call.op
         /\ wire[1].trc # 0 => (call.ret # 0 /\ call.ret = wire[1].trc)

\* mass-erase timed out after the bytes of a good response had arrived
C13_Witness ==
    /\ pc = "bsl_returned"
    /\ call.op = "bsl_mass_erase"
    /\ Len(wire) = 1
    /\ wire[1].trc = EIO /\ wire[1].rx = RspOk
    /\ call.ret = EIO

\* the command byte and the fields of the request of call c, as the protocol
\* defines them
CmdOf(c) ==
    IF c.op = "bsl_connect" THEN 18
    ELSE IF c.op = "bsl_get_device_info" THEN 25
    ELSE IF c.op = "bsl_unlock_bootloader" THEN 33
    ELSE IF c.op = "bsl_mass_erase" THEN 21
    ELSE IF c.op = "bsl_readback_data" THEN 41
    ELSE IF c.op = "bsl_program_data" THEN 32
    ELSE IF c.op = "bsl_verification" THEN 38
    ELSE IF c.op = "bsl_start_application" THEN 64
    ELSE 82

LittleEndian32(v) == [i \in 1..4 |-> (v \div (256 ^ (i - 1))) % 256]

FieldsOf(c) ==
    IF c.op = "bsl_unlock_bootloader" THEN [i \in 1..32 |-> 255]
    ELSE IF c.op \in {"bsl_readback_data", "bsl_verification"}
         THEN LittleEndian32(c.address) \o LittleEndian32(c.len)
    ELSE IF c.op = "bsl_program_data"
         THEN LittleEndian32(c.address) \o [i \in 1..c.len |-> FileByte(i - 1)]
    ELSE IF c.op = "bsl_change_baudrate" THEN <<c.baudrate>>
    ELSE <<>>

\* C15: the frame handed to the transport is 0x80, the 16-bit little-endian
\* number of payload bytes (command byte plus fields), the payload, and the
\* CRC32 of the payload alone, low byte first: 3 + len + 4 bytes in all.
C15_FrameLayout ==
    \A j \in 1..Len(wire) :
        (wire[j].by = call.op /\ pc = "bsl_returned") =>
            LET f == wire[j].frame
                payload == <<CmdOf(call)>> \o FieldsOf(call)
                n == Len(payload)
                crc == crc32(payload, n)
            IN  /\ Len(f) = 3 + n + 4
                /\ wire[j].tx_len = Len(f)
                /\ f[1] = 128
                /\ f[2] + 256 * f[3] = n
                /\ SubSeq(f, 4, 3 + n) = payload
                /\ SubSeq(f, 4 + n, 7 + n) =
                     <<crc[2] % 256, crc[2] \div 256, crc[1] % 256, crc[1] \div 256>>

\* a program-data frame with 256 data bytes went out
C15_Witness ==
    /\ pc = "bsl_returned"
    /\ call.op = "bsl_program_data" /\ call.len = 256
    /\ Len(wire) = 1 /\ Len(wire[1].frame) = 268

\* reading a frame back: the header byte, the little-endian length, that
\* many payload bytes (the command byte, then the fields), four CRC bytes
DecodeFrame(f) ==
    LET n == f[2] + 256 * f[3]
    IN  [header |-> f[1], cmd |-> f[4], fields |-> SubSeq(f, 5, 3 + n),
         crc |-> SubSeq(f, 4 + n, 7 + n), rest |-> Len(f) - (7 + n)]

\* C17: decoding the transmitted frame gives back the command byte and the
\* fields of the call, for 0 to 256 data bytes, and the four bytes after the
\* payload are the CRC of the decoded payload.
C17_RoundTrip ==
    \A j \in 1..Len(wire) :
        (wire[j].by = call.op /\ pc = "bsl_returned") =>
            LET d == DecodeFrame(wire[j].frame)
                crc == crc32(<<d.cmd>> \o d.fields, 1 + Len(d.fields))
            IN  /\ d.header = 128
                /\ d.cmd = CmdOf(call)
                /\ d.fields = FieldsOf(call)
                /\ d.rest = 0
                /\ d.crc = <<crc[2] % 256, crc[2] \div 256, crc[1] % 256, crc[1] \div 256>>

\* a frame whose length field needs its high byte was decoded
C17_Witness ==
    /\ pc = "bsl_returned"
    /\ call.op = "bsl_program_data" /\ call.len >= 251
    /\ Len(wire) = 1 /\ wire[1].frame[3] = 1
    /\ DecodeFrame(wire[1].frame).fields = FieldsOf(call)

\* C18: the transmitted frame is the same whatever the transmit buffer held
\* before the operation built the request in it.
C18_Deterministic ==
    \A j \in 1..Len(wire) :
        (wire[j].by = call.op /\ pc = "bsl_returned") =>
            \A g \in StackFills :
                /\ frame(tx_of(call, g)) = wire[j].frame
                /\ \A i \in 1..Len(wire[j].frame) : wire[j].frame[i] \in 0..255

\* unlock was sent from a buffer that held 0xA5 bytes before
C18_Witness ==
    /\ pc = "bsl_returned"
    /\ call.op = "bsl_unlock_bootloader" /\ call.fill = 165
    /\ Len(wire) = 1 /\ Len(wire[1].frame) = 40

(***************************************************************************)
(* The baud-rate change of main.                                           *)
(***************************************************************************)
\* the rate a BSL_UART_B* code stands for
RateOfCode(code) ==
    IF code = 3 THEN 19200
    ELSE IF code = 4 THEN 38400
    ELSE IF code = 5 THEN 57600
    ELSE IF code = 6 THEN 115200
    ELSE IF code = 7 THEN 1000000
    ELSE 0

IsBaudChange(e) == e.req.cmd = BSL_CMD_CHANGE_BAUDRATE

IsCommandFrame(e) == e.by \in {"cmd_erase", "cmd_info", "cmd_prog", "cmd_crc"}

\* C14: with a rate other than 9600 requested on UART, change-baud-rate goes
\* out before any command of cmd_*; the host UART leaves 9600 only after the
\* device acknowledged, and then runs at the rate whose code was sent; after
\* a NACK or a transport failure the host UART stays at 9600 until the
\* terminal settings are restored at exit, and nothing more is sent.
C14_BaudChange ==
    /\ \A i \in 1..Len(wire) :
         IsBaudChange(wire[i]) =>
            /\ intf.type = INTERFACE_TYPE_UART /\ opt.baud # 9600
            /\ \A k \in 1..(i - 1) : ~IsCommandFrame(wire[k]) /\ ~IsBaudChange(wire[k])
            /\ wire[i].ret # 0 =>
                  /\ i = Len(wire)
                  /\ intf.line = IF pc = "done" THEN 0 ELSE 9600
            /\ (wire[i].ret = 0 /\ pc # "done") =>
                  intf.line = RateOfCode(wire[i].req.data[1])
    /\ intf.line \notin {0, 9600} =>
         \E i \in 1..Len(wire) : IsBaudChange(wire[i]) /\ wire[i].ret = 0
    /\ \A k \in 1..Len(wire) :
         (IsCommandFrame(wire[k]) /\ intf.type = INTERFACE_TYPE_UART /\ opt.baud # 9600) =>
            \E i \in 1..(k - 1) : IsBaudChange(wire[i]) /\ wire[i].ret = 0

\* a command went out at 57600 baud after the device acknowledged the change
C14_Witness ==
    /\ intf.line = 57600
    /\ \E i \in 1..Len(wire) : IsBaudChange(wire[i]) /\ wire[i].ret = 0
    /\ \E k \in 1..Len(wire) : IsCommandFrame(wire[k])

(***************************************************************************)
(* crc32 (bsl.c) applied to a buffer.                                      *)
(***************************************************************************)
\* the longest buffer of arbitrary bytes
CrcMaxLen == 3

CrcBytes == {0, 1, 49, 128, 255}

\* "123456789"
CheckString == <<49, 50, 51, 52, 53, 54, 55, 56, 57>>

CrcInputs == UNION {[1..k -> CrcBytes] : k \in 0..CrcMaxLen} \cup {CheckString}

CrcApply ==
    /\ pc = "crc32_call"
    /\ crc_out' = <<crc32(call.buf, Len(call.buf))>>
    /\ call' = [call EXCEPT !.state = "returned"]
    /\ pc' = "crc32_done"
    /\ UNCHANGED <<opt, rc, intf, script, wire, prog>>

InitCrc ==
    /\ \E b \in CrcInputs : call = [op |-> "crc32", buf |-> b, state |-> "pending"]
    /\ intf = OpenIntf(INTERFACE_TYPE_I2C)
    /\ opt = NoOpt
    /\ pc = "crc32_call"
    /\ rc = 0
    /\ script = <<>>
    /\ wire = <<>>
    /\ prog = NoProg
    /\ crc_out = <<>>

NextCrc == CrcApply

SpecCrc == InitCrc /\ [][NextCrc]_vars

\* The standard CRC-32, from its definition: the generator polynomial
\* x^32 + x^26 + x^23 + x^22 + x^16 + x^12 + x^11 + x^10 + x^8 + x^7 + x^5 +
\* x^4 + x^2 + x + 1 (0x04C11DB7 without the x^32 term), register preset to
\* all ones, the bits of each byte fed low bit first into the high end, the
\* register reflected and complemented at the end.  The register is
\* <<high 16 bits, low 16 bits>>.
RECURSIVE XorInt(_, _, _)
XorInt(a, b, n) ==
    IF n = 0 THEN 0
    ELSE ((a + b) % 2) + 2 * XorInt(a \div 2, b \div 2, n - 1)

StdFeed(reg, bit) ==
    LET top == ((reg[1] \div 32768) + bit) % 2
        hi == ((reg[1] * 2) % 65536) + (reg[2] \div 32768)
        lo == (reg[2] * 2) % 65536
    IN  IF top = 1 THEN <<XorInt(hi, 1217, 16), XorInt(lo, 7607, 16)>> ELSE <<hi, lo>>

RECURSIVE StdFeedByte(_, _, _)
StdFeedByte(reg, byte, k) ==
    IF k = 8 THEN reg
    ELSE LET next == StdFeed(reg, (byte \div (2 ^ k)) % 2)
         IN  IF next[1] >= 0 THEN StdFeedByte(next, byte, k + 1) ELSE next

RECURSIVE StdRegister(_, _)
StdRegister(buf, n) ==
    IF n = 0 THEN <<65535, 65535>>
    ELSE LET before == StdRegister(buf, n - 1)
         IN  IF before[1] >= 0 THEN StdFeedByte(before, buf[n], 0) ELSE before

\* bit i of a 32-bit value held as <<high half, low half>>
BitOf(v, i) == IF i < 16 THEN (v[2] \div (2 ^ i)) % 2 ELSE (v[1] \div (2 ^ (i - 16))) % 2

\* bit i of the standard CRC-32, given the final register
StdCrc32Bit(reg, i) == 1 - BitOf(reg, 31 - i)

\* C16: crc32 returns a value below 2^32 that is the bitwise complement of
\* the standard CRC-32 of its input; it returns 0xFFFFFFFF for the empty
\* input and 0x340BC6D9 for "123456789".
C16_Crc32 ==
    (pc = "crc32_done") =>
        LET r == crc_out[1]
            std == StdRegister(call.buf, Len(call.buf))
        IN  /\ r[1] \in 0..65535 /\ r[2] \in 0..65535
            /\ std[1] >= 0
            /\ \A i \in 0..31 : BitOf(r, i) = 1 - StdCrc32Bit(std, i)
            /\ call.buf = <<>> => r = <<65535, 65535>>
            /\ call.buf = CheckString => r = <<13323, 50905>>

\* crc32 has been applied to "123456789"
C16_Witness ==
    /\ pc = "crc32_done"
    /\ call.buf = CheckString
    /\ crc_out = << <<13323, 50905>> >>

(***************************************************************************)
(* check_bsl_acknowledgement and check_bsl_response (bsl.c) applied to     *)
(* what a device may send.                                                 *)
(***************************************************************************)
AckInputs == 0..255

\* responses: the acknowledgement byte, the header byte at offset 1, the tag
\* at offset 4 and the status at offset 5
ResponseInputs ==
    {<<a, h, 2, 0, t, m, 0, 0, 0, 0>> :
        a \in {BSL_ACK, BSL_ERROR_HEADER_INCORRECT, BSL_ERROR_UNKNOWN_BAUD_RATE, 7},
        h \in {8, 0, 9},
        t \in {BSL_CORE_RSP_MESSAGE, BSL_CORE_RSP_DETAILED_ERROR,
               BSL_CORE_RSP_STANDALONE_VERIFICATION, 0},
        m \in (0..12) \cup {255}}

DecodeAck ==
    /\ pc = "decode" /\ call.op = "check_bsl_acknowledgement"
    /\ call' = [call EXCEPT !.ret = check_bsl_acknowledgement(call.ack),
                            !.state = "returned"]
    /\ pc' = "decoded"
    /\ UNCHANGED <<opt, rc, intf, script, wire, prog, crc_out>>

DecodeResponse ==
    /\ pc = "decode" /\ call.op = "check_bsl_response"
    /\ call' = [call EXCEPT !.ret = check_bsl_response(call.buffer, call.len),
                            !.state = "returned"]
    /\ pc' = "decoded"
    /\ UNCHANGED <<opt, rc, intf, script, wire, prog, crc_out>>

NoDecode == [op |-> "none", ack |-> 0, buffer |-> <<>>, len |-> 0, ret |-> 0,
             state |-> "pending"]

InitDecode ==
    /\ \/ \E a \in AckInputs :
            call = [NoDecode EXCEPT !.op = "check_bsl_acknowledgement", !.ack = a]
       \/ \E b \in ResponseInputs, n \in {0, 10} :
            call = [NoDecode EXCEPT !.op = "check_bsl_response", !.buffer = b, !.len = n]
    /\ intf = OpenIntf(INTERFACE_TYPE_I2C)
    /\ opt = NoOpt
    /\ pc = "decode"
    /\ rc = 0
    /\ script = <<>>
    /\ wire = <<>>
    /\ prog = NoProg
    /\ crc_out = <<>>

NextDecode == DecodeAck \/ DecodeResponse

SpecDecode == InitDecode /\ [][NextDecode]_vars

\* C19: check_bsl_acknowledgement returns 0 for the byte 0x00 and for no
\* other byte: the six codes 0x51 .. 0x56 and every other byte fail.
C19_AckDecoding ==
    (pc = "decoded" /\ call.op = "check_bsl_acknowledgement") =>
        /\ call.ret = 0 <=> call.ack = 0
        /\ call.ack \in 81..86 => call.ret # 0

\* a byte that is neither ACK nor one of the six codes was decoded
C19_Witness ==
    /\ pc = "decoded" /\ call.op = "check_bsl_acknowledgement"
    /\ call.ack = 255
    /\ call.ret # 0

\* C20: check_bsl_response fails for len = 0, for a first byte other than
\* 0x00 and for a byte other than 0x08 at offset 1; with the tag 0x3B at
\* offset 4 it fails for the status codes 0x01 .. 0x0B at offset 5 and
\* succeeds for the status 0x00.
C20_ResponseDecoding ==
    (pc = "decoded" /\ call.op = "check_bsl_response") =>
        LET b == call.buffer
        IN  /\ call.len = 0 => call.ret # 0
            /\ b[1] # 0 => call.ret # 0
            /\ b[2] # 8 => call.ret # 0
            /\ (call.len # 0 /\ b[1] = 0 /\ b[2] = 8 /\ b[5] = 59) =>
                  /\ b[6] \in 1..11 => call.ret # 0
                  /\ b[6] = 0 => call.ret = 0

\* a message response with the status 0x0B was decoded
C20_Witness ==
    /\ pc = "decoded" /\ call.op = "check_bsl_response"
    /\ call.len = 10
    /\ call.buffer[1] = 0 /\ call.buffer[2] = 8 /\ call.buffer[5] = 59
    /\ call.buffer[6] = 11
    /\ call.ret # 0

(***************************************************************************)
(* bsl_unlock_bootloader and the status the device reports.                *)
(***************************************************************************)
\* the response carries ACK and a message with a locked or password status
IsPasswordError(rx) ==
    /\ Len(rx) >= 6
    /\ rx[1] = BSL_ACK
    /\ rx[5] = BSL_CORE_RSP_MESSAGE
    /\ rx[6] \in {BSL_CORE_MSG_BSL_LOCKED_ERROR, BSL_CORE_MSG_BSL_PASSWORD_ERROR,
                  BSL_CORE_MSG_MULTIPLE_BSL_PASSWORD_ERROR}

\* C21: when the response to unlock-bootloader is ACK followed by a message
\* response with a locked or password error status, bsl_unlock_bootloader
\* returns failure.
C21_UnlockStatusFatal ==
    \A j \in 1..Len(wire) :
        (wire[j].by = "bsl_unlock_bootloader" /\ wire[j].trc = 0
                                              /\ IsPasswordError(wire[j].rx)) =>
            wire[j].ret # 0

(***************************************************************************)
(* bsl_get_device_info: the fields of struct bsl_device_info.              *)
(***************************************************************************)
\* v is the 16-bit little-endian integer at the offsets k, k+1 of rx
IsLe16(v, rx, k) ==
    /\ v % 256 = rx[k + 1]
    /\ v \div 256 = rx[k + 2]

\* v = <<bits 31..16, bits 15..0>> is the 32-bit little-endian integer at
\* the offsets k .. k+3 of rx
IsLe32(v, rx, k) ==
    /\ IsLe16(v[2], rx, k)
    /\ IsLe16(v[1], rx, k + 2)

InfoReturned ==
    /\ pc = "bsl_returned" /\ call.op = "bsl_get_device_info"
    /\ call.ret = 0

\* C22: after bsl_get_device_info returned 0 on a 33-byte response, every
\* field of *info is the little-endian integer at its fixed offset: version
\* 5-6, build id 7-8, application version 9-12, interface version 13-14, max
\* buffer size 15-16, buffer start 17-20, BCR id 21-24, BSL id 25-28.
C22_DeviceInfoFields ==
    InfoReturned =>
        LET rx == wire[Len(wire)].rx
            info == call.out[1]
        IN  /\ Len(rx) = 33
            /\ IsLe16(info.version, rx, 5)
            /\ IsLe16(info.build_id, rx, 7)
            /\ IsLe32(info.app_version, rx, 9)
            /\ IsLe16(info.interface_version, rx, 13)
            /\ IsLe16(info.bsl_max_buffer_size, rx, 15)
            /\ IsLe32(info.bsl_buffer_start, rx, 17)
            /\ IsLe32(info.bcr_config_id, rx, 21)
            /\ IsLe32(info.bsl_config_id, rx, 25)

\* a response whose application-version field has its top bit set was decoded
C22_Witness ==
    /\ InfoReturned
    /\ wire[Len(wire)].rx[13] >= 128
    /\ call.out[1].app_version[1] >= 32768

(***************************************************************************)
(* The response length each operation asks the transport for.              *)
(***************************************************************************)
\* the command table: response length by command byte; count is the count
\* field of a read-back frame
ResponseLenOf(cmd, count) ==
    IF cmd = 18 THEN 1
    ELSE IF cmd = 25 THEN 33
    ELSE IF cmd = 33 THEN 10
    ELSE IF cmd = 21 THEN 10
    ELSE IF cmd = 32 THEN 10
    ELSE IF cmd = 41 THEN 9 + count
    ELSE IF cmd = 38 THEN 13
    ELSE IF cmd = 64 THEN 1
    ELSE IF cmd = 82 THEN 1
    ELSE -1

\* the count field of a frame that carries an address and a count
CountField(f) == f[9] + 256 * f[10] + 65536 * f[11] + 16777216 * f[12]

\* C23: each operation asks the transport for the response length of the
\* command table: connect 1, get-device-info 33, unlock 10, mass-erase 10,
\* program-data 10, read-back 9+count, standalone-verify 13,
\* start-application 1, change-baud-rate 1.
C23_ResponseLength ==
    \A j \in 1..Len(wire) :
        LET f == wire[j].frame
        IN  wire[j].read_len =
                ResponseLenOf(f[4], IF f[4] = 41 THEN CountField(f) ELSE 0)

\* a read-back of 23 bytes asked for 32 bytes and received them
C23_Witness ==
    /\ pc = "bsl_returned" /\ call.op = "bsl_readback_data" /\ call.len = 23
    /\ wire[1].read_len = 32
    /\ wire[1].trc = 0 /\ Len(wire[1].rx) = 32
    /\ call.ret = 0

(***************************************************************************)
(* bsl_readback_data: what the caller receives.                            *)
(***************************************************************************)
\* the payload of a read-back response for count bytes
Payload(rx, count) == SubSeq(rx, 6, 5 + count)

ReadbackSucceeded ==
    /\ pc = "bsl_returned" /\ call.op = "bsl_readback_data"
    /\ call.ret = 0
    /\ wire[Len(wire)].rx[5] = BSL_CORE_RSP_MEMORY_READ_BACK

\* C27: when bsl_readback_data succeeds, the payload bytes read from the
\* device are among what the operation hands to its caller.
C27_PayloadAvailable ==
    ReadbackSucceeded =>
        \E i \in 1..Len(call.out) :
            call.out[i] = Payload(wire[Len(wire)].rx, call.len)

(***************************************************************************)
(* The place of connect in a session of main.                              *)
(***************************************************************************)
IsConnect(e) == e.req.cmd = BSL_CMD_CONNECTION

\* the bootloader commands that need a connected device
NeedsConnect(e) ==
    e.req.cmd \in {BSL_CMD_CHANGE_BAUDRATE, BSL_CMD_UNLOCK_BL, BSL_CMD_MASS_ERASE,
                   BSL_CMD_PROGRAM_DATA, BSL_CMD_STANDALONE_VERIFICATION,
                   BSL_CMD_GET_DEVICE_INFO}

Acknowledged(e) == e.trc = 0 /\ e.rx[1] = BSL_ACK

\* C24: unless -N was given, the first command on the wire is connect, and a
\* change-baud-rate, unlock, erase, program, verify or info command is on the
\* wire only after that connect was acknowledged.
C24_ConnectFirst ==
    (~opt.no_connect /\ wire # <<>>) =>
        /\ IsConnect(wire[1])
        /\ \A j \in 2..Len(wire) :
              NeedsConnect(wire[j]) => Acknowledged(wire[1])

\* a session that connected and then sent unlock
C24_Witness ==
    /\ ~opt.no_connect
    /\ Len(wire) >= 2
    /\ IsConnect(wire[1]) /\ Acknowledged(wire[1])
    /\ wire[2].req.cmd = BSL_CMD_UNLOCK_BL

(***************************************************************************)
(* The slave address of the I2C transactions of a session of main.         *)
(***************************************************************************)
\* the address the command line asks for: the argument of -a, 0x48 without
SessionAddress == IF opt.address = <<>> THEN 72 ELSE opt.address[1]

\* C25: every I2C transaction of the session uses the address given with
\* -a, and 0x48 only when no address was given.
C25_GivenAddressUsed ==
    \A j \in 1..Len(wire) :
        wire[j].type = INTERFACE_TYPE_I2C => wire[j].addr = SessionAddress

(***************************************************************************)
(* The option -s and start-application.                                    *)
(***************************************************************************)
StartSent == \E j \in 1..Len(wire) : IsStart(wire[j])

IoctlResults == {-1, 0}

Ioctl(request, res) == [request |-> request, res |-> res]

\* if (ioctl(fd, I2C_SLAVE_FORCE, addr) < 0) { printf(...); }
I2cSelect ==
    /\ pc = "i2c_select"
    /\ \E r \in IoctlResults : wire' = Append(wire, Ioctl("I2C_SLAVE_FORCE", r))
    /\ pc' = "i2c_write"
    /\ UNCHANGED <<opt, rc, intf, script, prog, crc_out, call>>

\* if (ioctl(fd, I2C_RDWR, &packets) < 0) { ...; return 1; }   (flags = 0)
I2cWrite ==
    /\ pc = "i2c_write"
    /\ \E r \in IoctlResults :
         /\ wire' = Append(wire, Ioctl("I2C_RDWR write", r))
         /\ IF r < 0
            THEN /\ call' = [call EXCEPT !.ret = 1, !.state = "returned"]
                 /\ pc' = "i2c_done"
            ELSE /\ pc' = "i2c_read"
                 /\ UNCHANGED call
    /\ UNCHANGED <<opt, rc, intf, script, prog, crc_out>>

\* if (ioctl(fd, I2C_RDWR, &packets) < 0) { ...; return 1; } return 0
\* (flags = I2C_M_RD): the transaction fills rx[0 .. read_len)
I2cRead ==
    /\ pc = "i2c_read"
    /\ \E r \in IoctlResults :
         /\ wire' = Append(wire, Ioctl("I2C_RDWR read", r))
         /\ IF r < 0
            THEN call' = [call EXCEPT !.ret = 1, !.state = "returned"]
            ELSE call' = [call EXCEPT !.ret = 0, !.state = "returned",
                                      !.rx = line_bytes(0, call.read_len)]
    /\ pc' = "i2c_done"
    /\ UNCHANGED <<opt, rc, intf, script, prog, crc_out>>

NoI2c == [op |-> "i2c_write_read", addr |-> 0, write_len |-> 0, read_len |-> 0,
          rx |-> <<>>, ret |-> 0, state |-> "pending"]

InitI2c ==
    /\ \E a \in {72, 41}, w \in {8, 40, 264}, n \in {1, 10, 13, 33} :
         call = [NoI2c EXCEPT !.addr = a, !.write_len = w, !.read_len = n,
                              !.rx = [i \in 1..n |-> 0]]
    /\ intf = OpenIntf(INTERFACE_TYPE_I2C)
    /\ opt = NoOpt
    /\ pc = "i2c_select"
    /\ rc = 0
    /\ script = <<>>
    /\ wire = <<>>
    /\ prog = NoProg
    /\ crc_out = <<>>

NextI2c == I2cSelect \/ I2cWrite \/ I2cRead

SpecI2c == InitI2c /\ [][NextI2c]_vars

\* C28: when the address selection, the write transaction or the read
\* transaction fails, i2c_write_read returns failure and issues no later
\* transaction.
C28_FailImmediately ==
    \A j \in 1..Len(wire) :
        wire[j].res < 0 =>
            /\ j = Len(wire)
            /\ pc = "i2c_done"
            /\ call.ret # 0

(***************************************************************************)
(* cmd_crc in device mode (no file name).                                  *)
(***************************************************************************)
ByCrc(e) == e.by = "cmd_crc"

\* C29: cmd_crc sends standalone-verify only with a length that is non-zero
\* and a multiple of 1024, and only after unlock returned success; for a
\* length of 0 or not a multiple of 1024 it sends no command at all.
C29_CrcLengthChecked ==
    \A j \in 1..Len(wire) :
        ByCrc(wire[j]) =>
            /\ opt.length # 0 /\ opt.length % 1024 = 0
            /\ wire[j].req.cmd = BSL_CMD_STANDALONE_VERIFICATION =>
                  /\ wire[j].req.len = opt.length
                  /\ \E i \in 1..(j - 1) :
                        /\ ByCrc(wire[i])
                        /\ wire[i].req.cmd = BSL_CMD_UNLOCK_BL
                        /\ wire[i].ret = 0

\* cmd_crc sent standalone-verify for 1024 bytes
C29_Witness ==
    \E j \in 1..Len(wire) :
        /\ ByCrc(wire[j])
        /\ wire[j].req.cmd = BSL_CMD_STANDALONE_VERIFICATION
        /\ wire[j].req.len = 1024

\* cmd_crc in device mode met a failure: a bad length, a failed unlock or a
\* failed standalone-verify
CrcFailed ==
    /\ opt.cmd = "crc" /\ ~opt.has_file
    /\ \/ opt.length = 0
       \/ opt.length % 1024 # 0
       \/ \E j \in 1..Len(wire) : ByCrc(wire[j]) /\ wire[j].ret # 0

\* C30: cmd_crc returns non-zero when the length is missing or not a
\* multiple of 1024, when unlock fails and when standalone-verify fails (main
\* holds the returned value in rc when it reaches the start step).
C30_CrcFailuresSurface ==
    (pc = "start" /\ CrcFailed) => rc # 0

(***************************************************************************)
(* The teardown of main.                                                   *)
(***************************************************************************)
\* the positions of the call c in the list of calls on the descriptor
CallsOf(c) == {i \in 1..Len(intf.sys) : intf.sys[i] = c}

\* main has returned after it had opened the device
ReturnedAfterOpen == pc = "done" /\ intf.fd # "unopened"

\* C31: when main returns after the device was opened, the descriptor has
\* been closed, as the last call made on it, and on UART the saved terminal
\* settings were restored before that close.
C31_ClosedOnEveryPath ==
    ReturnedAfterOpen =>
        /\ intf.fd = "closed"
        /\ CallsOf("close") = {Len(intf.sys)}
        /\ intf.type = INTERFACE_TYPE_UART =>
              \E i \in CallsOf("tcsetattr") : i < Len(intf.sys)

\* a UART session whose command failed has returned
C31_Witness ==
    /\ ReturnedAfterOpen
    /\ intf.type = INTERFACE_TYPE_UART
    /\ rc # 0
    /\ \E j \in 1..Len(wire) : wire[j].by # "main" /\ wire[j].ret # 0

\* C32: when main has returned and the control script ran with 'init' and
\* succeeded, the script was run with 'exit' afterwards, on every outcome of
\* the session.
C32_ExitAfterInit ==
    pc = "done" =>
        \A i \in 1..Len(script) :
            (script[i].arg = "init" /\ script[i].rc = 0) =>
                \E j \in (i + 1)..Len(script) : script[j].arg = "exit"

(***************************************************************************)
(* Alignment of the commands of cmd_prog.                                  *)
(***************************************************************************)
Aligned8(e) == e.req.addr % 8 = 0 /\ e.req.len % 8 = 0

\* C33: every program-data command of cmd_prog and the standalone-verify
\* command have an address and a length that are multiples of 8, for every
\* non-empty image file.
C33_Aligned ==
    \A j \in 1..Len(wire) :
        (wire[j].by = "cmd_prog" /\ (IsChunk(wire[j]) \/ IsVerify(wire[j]))) =>
            Aligned8(wire[j])

\* a file whose length is not a multiple of 8 was programmed and verified
C33_Witness ==
    /\ opt.file.len % 8 # 0
    /\ \E j \in 1..Len(wire) : wire[j].by = "cmd_prog" /\ IsChunk(wire[j])
    /\ \E j \in 1..Len(wire) : IsVerify(wire[j])

(***************************************************************************)
(* The host CRC of cmd_prog.                                               *)
(***************************************************************************)
\* cmd_prog has computed crc_file
HostCrcComputed == prog.crc_len # 0

\* C34: the number of bytes the host CRC of cmd_prog is computed over is the
\* length sent in the standalone-verify command, is a multiple of 1024 and
\* does not exceed the length of the image buffer.
C34_HostCrcInBuffer ==
    HostCrcComputed =>
        /\ \E j \in 1..Len(wire) : IsVerify(wire[j]) /\ wire[j].req.len = prog.crc_len
        /\ prog.crc_len % 1024 = 0
        /\ prog.crc_len <= Len(prog.fw_buf)
        /\ Len(prog.fw_buf) = prog.total_len

\* the CRC of the image of a file of 4097 bytes was computed, over 8192 bytes
C34_Witness ==
    /\ HostCrcComputed
    /\ opt.file.len = 4097
    /\ prog.crc_len = 8192

\* C35: check_bsl_response fails for every message response (tag 0x3B at
\* offset 4) whose status byte at offset 5 is not 0x00, the values
\* 0x0C .. 0xFF included.
C35_EveryStatusFails ==
    (/\ pc = "decoded" /\ call.op = "check_bsl_response"
     /\ call.len # 0
     /\ call.buffer[5] = BSL_CORE_RSP_MESSAGE
     /\ call.buffer[6] # BSL_CORE_MSG_OPERATION_SUCCESSFUL) =>
        call.ret # 0

(***************************************************************************)
(* bsl_verification and the tag of the response.                           *)
(***************************************************************************)
\* C36: bsl_verification returns 0 and stores a CRC only for a response
\* whose tag at offset 4 is 0x32 (standalone verification).
C36_CrcOnlyFromVerification ==
    (/\ pc = "bsl_returned" /\ call.op = "bsl_verification"
     /\ (call.ret = 0 \/ call.out # <<>>)) =>
        wire[Len(wire)].rx[5] = BSL_CORE_RSP_STANDALONE_VERIFICATION

(***************************************************************************)
(* The receive buffers of the command operations.                          *)
(***************************************************************************)
\* C37: no operation asks the transport for more bytes than its receive
\* buffer holds; bsl_readback_data never asks for more than 32 bytes.
C37_ResponseFitsBuffer ==
    \A j \in 1..Len(wire) :
        /\ wire[j].read_len <= rx_size(call)
        /\ wire[j].by = "bsl_readback_data" => wire[j].read_len <= 32

(***************************************************************************)
(* load_fw_image with a pad length given by the caller (crc with a file).  *)
(***************************************************************************)
\* cmd_crc has loaded the file: it printed the CRC and the buffer length, or
\* the process ended in load_fw_image
CrcFileLoaded ==
    /\ opt.cmd = "crc" /\ opt.has_file
    /\ crc_out # <<>> \/ pc = "crashed"

\* C38: load_fw_image reads the L bytes of the file into a buffer of at
\* least L bytes, for every pad length the crc command passes.
C38_BufferHoldsFile ==
    CrcFileLoaded =>
        /\ pc # "crashed"
        /\ crc_out[2] >= opt.file.len

(***************************************************************************)
(* cmd_prog when the image cannot be loaded.                               *)
(***************************************************************************)
\* the file cannot be opened or is empty, or cmd_prog returned without an
\* image (open, read or length error in load_fw_image)
ImageNotLoaded ==
    \/ ~opt.file.exists
    \/ opt.file.len = 0
    \/ pc = "start" /\ prog.fw_buf = <<>>

\* C39: when the image cannot be loaded, cmd_prog sends no command at all
\* (no unlock, mass-erase, program-data, standalone-verify) and returns
\* failure.
C39_NoCommandWithoutImage ==
    ImageNotLoaded =>
        /\ ProgWire = <<>>
        /\ pc = "start" => rc # 0

\* cmd_prog returned for an existing, empty file
C39_Witness ==
    /\ opt.file.exists /\ opt.file.len = 0
    /\ pc = "start"
    /\ rc = -1
    /\ wire = <<>>

(***************************************************************************)
(* The rates main accepts for the baud-rate change.                        *)
(***************************************************************************)
\* the rates above the default for which bsl.h defines a code
IsRateWithCode(b) == b \in {19200, 38400, 57600, 115200, 1000000}

\* main refused the requested rate: rc = EINVAL at out_close, and no
\* change-baud-rate was sent
RateRejected ==
    /\ intf.type = INTERFACE_TYPE_UART
    /\ pc = "out_close" /\ rc = EINVAL
    /\ \A i \in 1..Len(wire) : ~IsBaudChange(wire[i])

\* C40: a change-baud-rate on the wire carries the code of the requested
\* rate, which is one of 19200, 38400, 57600, 115200, 1000000, and the host
\* UART is then set to that rate; only other rates are rejected.
C40_RatesWithCodeAccepted ==
    /\ \A i \in 1..Len(wire) :
         IsBaudChange(wire[i]) =>
            /\ IsRateWithCode(opt.baud)
            /\ RateOfCode(wire[i].req.data[1]) = opt.baud
            /\ (wire[i].ret = 0 /\ pc \notin {"out_close", "done"}) =>
                  intf.line = opt.baud
    /\ RateRejected => ~IsRateWithCode(opt.baud)

====
